---- MODULE Spec2Model ----
(***************************************************************************)
(* Model of the dual-search orchestration of yevrah_terminal               *)
(* (src/tools.py, execute_search_case_law and the helpers it calls).       *)
(*                                                                         *)
(* Text is modelled as a sequence of one-character strings, so that the    *)
(* regular-expression steps of the source are computed character by        *)
(* character.  A jurisdiction phrase is modelled after lower()/strip()/    *)
(* split(), as a sequence of lowercase words.                              *)
(***************************************************************************)
EXTENDS Integers, Sequences, FiniteSets, Bags, TLC

(***************************************************************************)
(* Bounds of the model                                                     *)
(***************************************************************************)
\* most results one branch call returns (the page size asked for is 20)
MaxFetch == 6
\* most words of a jurisdiction phrase drawn from the vocabulary
MaxWords == 2
\* the longest query of the model, in tokens
MaxTokens == 3
\* the longest query, in tokens, of the requests that vary the query
MaxDispatchTokens == 2

(***************************************************************************)
(* Program constants                                                       *)
(***************************************************************************)
page_size_per_search == 20
keyword_top_n == 5
semantic_top_n == 5

(***************************************************************************)
(* Python values                                                           *)
(***************************************************************************)
\* None, and a key that is not in the arguments dict
None == <<"<None>">>
Missing == <<"<Missing>">>
\* a key that a result dict does not have
Absent == "<absent>"

\* dict.get(key, default)
Get(v, default) == IF v = Missing THEN default ELSE v
\* truth value of a str-or-None
Truthy(v) == v # None /\ v # Missing /\ v # <<>>

(***************************************************************************)
(* Characters and strings                                                  *)
(***************************************************************************)
UpperCase == {"A","B","C","D","E","F","G","H","I","J","K","L","M",
              "N","O","P","Q","R","S","T","U","V","W","X","Y","Z"}
LowerCase == {"a","b","c","d","e","f","g","h","i","j","k","l","m",
              "n","o","p","q","r","s","t","u","v","w","x","y","z"}
Digits == {"0","1","2","3","4","5","6","7","8","9"}

lowerOf == [c \in UpperCase |->
   CASE c = "A" -> "a" [] c = "B" -> "b" [] c = "C" -> "c" [] c = "D" -> "d"
     [] c = "E" -> "e" [] c = "F" -> "f" [] c = "G" -> "g" [] c = "H" -> "h"
     [] c = "I" -> "i" [] c = "J" -> "j" [] c = "K" -> "k" [] c = "L" -> "l"
     [] c = "M" -> "m" [] c = "N" -> "n" [] c = "O" -> "o" [] c = "P" -> "p"
     [] c = "Q" -> "q" [] c = "R" -> "r" [] c = "S" -> "s" [] c = "T" -> "t"
     [] c = "U" -> "u" [] c = "V" -> "v" [] c = "W" -> "w" [] c = "X" -> "x"
     [] c = "Y" -> "y" [] c = "Z" -> "z"]

\* str.lower()
LowerChar(c) == IF c \in UpperCase THEN lowerOf[c] ELSE c
Lower(s) == [i \in 1..Len(s) |-> LowerChar(s[i])]

\* \s and \w of the re module
IsSpace(c) == c = " "
IsWordChar(c) == c \in UpperCase \cup LowerCase \cup Digits \cup {"_"}

\* s[i:j] with 1-based inclusive bounds
Slice(s, i, j) == IF j < i THEN <<>> ELSE SubSeq(s, i, j)
\* s[:n]
Take(s, n) == IF Len(s) <= n THEN s ELSE SubSeq(s, 1, n)

\* the literal lit (lowercase) is at position i of s, compared case-insensitively
MatchesAt(s, i, lit) ==
   /\ i >= 1
   /\ i + Len(lit) - 1 <= Len(s)
   /\ \A k \in 1..Len(lit) : LowerChar(s[i + k - 1]) = lit[k]

\* sub in s  (substring test)
Contains(sub, s) ==
   \E i \in 1..(Len(s) + 1) :
      i + Len(sub) - 1 <= Len(s) /\ Slice(s, i, i + Len(sub) - 1) = sub

\* \b at the gap before position i (1 <= i <= Len(s)+1)
Boundary(s, i) ==
   LET before == i > 1 /\ IsWordChar(s[i - 1])
       after  == i <= Len(s) /\ IsWordChar(s[i])
   IN  before # after

\* first position >= i that is not whitespace (Len(s)+1 when there is none)
RECURSIVE SkipSpace(_, _)
SkipSpace(s, i) == IF i <= Len(s) /\ IsSpace(s[i]) THEN SkipSpace(s, i + 1) ELSE i

\* str.strip()
RECURSIVE StripRight(_)
StripRight(s) == IF Len(s) > 0 /\ IsSpace(s[Len(s)]) THEN StripRight(SubSeq(s, 1, Len(s) - 1)) ELSE s
Strip(s) == StripRight(Slice(s, SkipSpace(s, 1), Len(s)))

(***************************************************************************)
(* QueryTransformer: src/tools.py, convert_boolean_to_natural_language and *)
(* the query part of execute_search_case_law                               *)
(***************************************************************************)
\* line 1159 without re.IGNORECASE
has_boolean_operators_cased(q) ==
   \/ \E i \in 1..Len(q) : q[i] \in {"&", "%"}
   \/ \E i \in 1..Len(q) : \E w \in {<<"A","N","D">>, <<"O","R">>, <<"N","O","T">>} :
         /\ i + Len(w) - 1 <= Len(q)
         /\ SubSeq(q, i, i + Len(w) - 1) = w
         /\ Boundary(q, i)
         /\ Boundary(q, i + Len(w))
\* line 1159: re.search(r'(\b(AND|OR|NOT)\b|[&%])', original_query, re.IGNORECASE)
has_boolean_operators(q) ==
   \/ \E i \in 1..Len(q) : q[i] \in {"&", "%"}
   \/ \E i \in 1..Len(q) : \E w \in {<<"a","n","d">>, <<"o","r">>, <<"n","o","t">>} :
         /\ MatchesAt(q, i, w)
         /\ Boundary(q, i)
         /\ Boundary(q, i + Len(w))

\* line 1105: re.search(r'(\b(AND|OR|NOT)\b|[&%])', query, re.IGNORECASE)
has_boolean(query) ==
   \/ \E i \in 1..Len(query) : query[i] \in {"&", "%"}
   \/ \E i \in 1..Len(query) : \E w \in {<<"a","n","d">>, <<"o","r">>, <<"n","o","t">>} :
         /\ MatchesAt(query, i, w)
         /\ Boundary(query, i)
         /\ Boundary(query, i + Len(w))

\* end (exclusive) of a match of \s{minWs,} lit \s{minWs,} that starts at i;
\* 0 when the pattern does not match at i
MatchWsLit(s, i, lit, minWs) ==
   LET j == SkipSpace(s, i)
       k == j + Len(lit)
       e == SkipSpace(s, k)
   IN  IF i <= Len(s) /\ j - i >= minWs /\ MatchesAt(s, j, lit) /\ e - k >= minWs
       THEN e ELSE 0

\* re.sub(r'\s{minWs,}lit\s{minWs,}', repl, s, flags=re.IGNORECASE), scanning from i
RECURSIVE SubWsLit(_, _, _, _, _)
SubWsLit(s, i, lit, minWs, repl) ==
   IF i > Len(s) THEN <<>>
   ELSE LET e == MatchWsLit(s, i, lit, minWs)
        IN  IF e # 0 THEN repl \o SubWsLit(s, e, lit, minWs, repl)
            ELSE <<s[i]>> \o SubWsLit(s, i + 1, lit, minWs, repl)

\* re.sub(r'[()]', ' ', s)
SubParens(s) == [i \in 1..Len(s) |-> IF s[i] \in {"(", ")"} THEN " " ELSE s[i]]

\* re.sub(r'\s+', ' ', s)
RECURSIVE CollapseSpace(_, _)
CollapseSpace(s, i) ==
   IF i > Len(s) THEN <<>>
   ELSE IF IsSpace(s[i]) THEN <<" ">> \o CollapseSpace(s, SkipSpace(s, i))
   ELSE <<s[i]>> \o CollapseSpace(s, i + 1)

convert_boolean_to_natural_language(query) ==
   IF ~has_boolean(query) THEN query
   ELSE LET r1 == SubWsLit(query, 1, <<"&">>, 0, <<" ">>)
            r2 == SubWsLit(r1, 1, <<"a","n","d">>, 1, <<" ">>)
            r3 == SubWsLit(r2, 1, <<"%">>, 0, <<" ","N","O","T"," ">>)
            r4 == SubWsLit(r3, 1, <<"n","o","t">>, 1, <<" ","b","u","t"," ","n","o","t"," ">>)
            r5 == SubWsLit(r4, 1, <<"o","r">>, 1, <<" ","o","r"," ">>)
            r6 == SubParens(r5)
        IN  Strip(CollapseSpace(r6, 1))

common_words == {
   <<"t","h","i","s">>, <<"t","h","a","t">>, <<"w","i","t","h">>,
   <<"f","r","o","m">>, <<"h","a","v","e">>, <<"b","e","e","n">>,
   <<"w","e","r","e">>, <<"t","h","e","i","r">>, <<"w","h","a","t">>,
   <<"w","h","e","n">>, <<"w","h","e","r","e">>, <<"w","h","i","c","h">>,
   <<"w","h","i","l","e">>, <<"a","b","o","u","t">>, <<"a","f","t","e","r">>,
   <<"b","e","f","o","r","e">>, <<"b","e","c","a","u","s","e">>,
   <<"t","h","r","o","u","g","h">>, <<"d","u","r","i","n","g">>,
   <<"b","e","t","w","e","e","n">>}

\* first position >= i that is not a \w character
RECURSIVE SkipWord(_, _)
SkipWord(s, i) == IF i <= Len(s) /\ IsWordChar(s[i]) THEN SkipWord(s, i + 1) ELSE i

\* re.findall(r'\b[a-z]{4,}\b', s): the maximal \w runs of s, from position i,
\* that are made of a-z only and have 4 or more letters
RECURSIVE FindWords(_, _)
FindWords(s, i) ==
   IF i > Len(s) THEN <<>>
   ELSE IF ~IsWordChar(s[i]) THEN FindWords(s, i + 1)
   ELSE LET e == SkipWord(s, i)
            w == Slice(s, i, e - 1)
        IN  IF Len(w) >= 4 /\ \A k \in 1..Len(w) : w[k] \in LowerCase
            THEN <<w>> \o FindWords(s, e)
            ELSE FindWords(s, e)

\* [w for w in words if w not in common_words]
RECURSIVE DropCommon(_)
DropCommon(ws) ==
   IF ws = <<>> THEN <<>>
   ELSE IF Head(ws) \in common_words THEN DropCommon(Tail(ws))
   ELSE <<Head(ws)>> \o DropCommon(Tail(ws))

\* sep.join(ws)
RECURSIVE Join(_, _)
Join(ws, sep) ==
   IF ws = <<>> THEN <<>>
   ELSE IF Len(ws) = 1 THEN Head(ws)
   ELSE Head(ws) \o sep \o Join(Tail(ws), sep)

\* lines 1188-1194 with every word of 4 or more letters kept
auto_keyword_query_unfiltered(query) ==
   LET key_terms == Take(FindWords(Lower(query), 1), 7)
   IN  IF key_terms # <<>> THEN Join(key_terms, <<" ","A","N","D"," ">>) ELSE query
\* lines 1188-1194: the auto-generated keyword query of a dual search
auto_keyword_query(query) ==
   LET key_terms == Take(DropCommon(FindWords(Lower(query), 1)), 7)
   IN  IF key_terms # <<>> THEN Join(key_terms, <<" ","A","N","D"," ">>) ELSE query

(***************************************************************************)
(* JurisdictionResolver: src/tools.py, map_jurisdiction_to_codes.          *)
(* The input is text; after lower() and strip() it is cut into its words,  *)
(* each held as a string.  A registry key is the sequence of its words and *)
(* a code string is the sequence of its codes.  The phrases of the model   *)
(* are made of letters, digits and spaces, for which \w+ of the source's   *)
(* patterns is a word of split().                                          *)
(***************************************************************************)
\* first position >= i that is whitespace (Len(s)+1 when there is none)
RECURSIVE SkipNonSpace(_, _)
SkipNonSpace(s, i) == IF i <= Len(s) /\ ~IsSpace(s[i]) THEN SkipNonSpace(s, i + 1) ELSE i

\* str.split(): the words of s from position i, each a character sequence
RECURSIVE SplitWords(_, _)
SplitWords(s, i) ==
   IF i > Len(s) THEN <<>>
   ELSE IF IsSpace(s[i]) THEN SplitWords(s, i + 1)
   ELSE <<Slice(s, i, SkipNonSpace(s, i) - 1)>> \o SplitWords(s, SkipNonSpace(s, i))

\* the string that a character sequence spells
RECURSIVE Str(_)
Str(cs) == IF cs = <<>> THEN "" ELSE cs[1] \o Str(Tail(cs))

\* the words of a text, as strings
PhraseWords(s) == [i \in 1..Len(SplitWords(s, 1)) |-> Str(SplitWords(s, 1)[i])]

\* the words of a stripped text are separated by one space each
RECURSIVE TotalLen(_)
TotalLen(ws) == IF ws = <<>> THEN 0 ELSE Len(Head(ws)) + TotalLen(Tail(ws))
SingleSpaced(s) ==
   LET ws == SplitWords(s, 1)
   IN  Len(s) = TotalLen(ws) + (IF Len(ws) = 0 THEN 0 ELSE Len(ws) - 1)

TexasState == <<"tex", "texcrimapp", "texapp">>
TexasFederal == <<"ca5", "txed", "txnd", "txsd", "txwd", "txeb", "txnb", "txsb", "txwb">>
TexasAll == TexasState \o TexasFederal
IndianaState == <<"ind", "indctapp">>
IndianaFederal == <<"ca7", "innd", "insd", "innb", "insb">>
CaliforniaState == <<"cal", "calctapp", "calappdeptsuper">>
CaliforniaFederal == <<"ca9", "cacd", "caed", "cand", "casd", "californiad",
                       "cacb", "caeb", "canb", "casb">>
CaliforniaAll == CaliforniaState \o CaliforniaFederal \o <<"calag">>
FloridaState == <<"fla", "flactapp">>
FloridaFederal == <<"ca11", "flmd", "flnd", "flsd", "flmb", "flnb", "flsb">>
FloridaAllWithCircuit == FloridaState \o FloridaFederal \o <<"flaag", "ca5">>
FloridaAll == FloridaState \o FloridaFederal \o <<"flaag">>
NebraskaState == <<"neb", "nebctapp">>
NebraskaFederal == <<"ca8", "ned", "neb">>
NebraskaAll == <<"neb", "nebctapp", "ca8", "ned", "neb">>

\* the entries of STATE_COURT_MAPPING that the model carries
NewYorkState == <<"ny", "nyappdiv", "nyappterm">>
NewYorkFederal == <<"ca2", "nyed", "nynd", "nysd", "nywd", "nyeb", "nynb", "nysb", "nywb">>
AllFederal == <<"scotus", "ca1", "ca2", "ca3", "ca4", "ca5", "ca6", "ca7", "ca8", "ca9",
                "ca10", "ca11", "cadc", "cafc">>

MappingKeys == {
   <<"texas">>, <<"texas", "state">>, <<"texas", "federal">>,
   <<"tx">>, <<"tx", "state">>, <<"tx", "federal">>,
   <<"indiana">>, <<"indiana", "state">>, <<"indiana", "federal">>,
   <<"in">>, <<"in", "state">>, <<"in", "federal">>,
   <<"california">>, <<"california", "state">>, <<"california", "federal">>,
   <<"ca">>, <<"ca", "state">>, <<"ca", "federal">>,
   <<"florida">>, <<"florida", "state">>, <<"florida", "federal">>,
   <<"fl">>, <<"fl", "state">>, <<"fl", "federal">>, <<"fla">>,
   <<"nebraska">>, <<"nebraska", "state">>, <<"nebraska", "federal">>,
   <<"ne">>, <<"ne", "state">>, <<"ne", "federal">>,
   <<"new", "york">>, <<"new", "york", "state">>, <<"new", "york", "federal">>,
   <<"federal">>,
   <<"fifth", "circuit">>, <<"supreme", "court">>, <<"scotus">>}

STATE_COURT_MAPPING == [k \in MappingKeys |->
   CASE k \in {<<"texas">>, <<"tx">>} -> TexasAll
     [] k \in {<<"texas", "state">>, <<"tx", "state">>} -> TexasState
     [] k \in {<<"texas", "federal">>, <<"tx", "federal">>} -> TexasFederal
     [] k \in {<<"indiana">>, <<"in">>} -> IndianaState \o IndianaFederal
     [] k \in {<<"indiana", "state">>, <<"in", "state">>} -> IndianaState
     [] k \in {<<"indiana", "federal">>, <<"in", "federal">>} -> IndianaFederal
     [] k \in {<<"california">>, <<"ca">>} -> CaliforniaAll
     [] k \in {<<"california", "state">>, <<"ca", "state">>} -> CaliforniaState
     [] k \in {<<"california", "federal">>, <<"ca", "federal">>} -> CaliforniaFederal
     [] k \in {<<"florida">>, <<"fl">>, <<"fla">>} -> FloridaAll
     [] k \in {<<"florida", "state">>, <<"fl", "state">>} -> FloridaState
     [] k \in {<<"florida", "federal">>, <<"fl", "federal">>} -> FloridaFederal
     [] k \in {<<"nebraska">>, <<"ne">>} -> NebraskaAll
     [] k \in {<<"nebraska", "state">>, <<"ne", "state">>} -> NebraskaState
     [] k \in {<<"nebraska", "federal">>, <<"ne", "federal">>} -> NebraskaFederal
     [] k = <<"new", "york">> -> NewYorkState \o NewYorkFederal
     [] k = <<"new", "york", "state">> -> NewYorkState
     [] k = <<"new", "york", "federal">> -> NewYorkFederal
     [] k = <<"federal">> -> AllFederal
     [] k = <<"fifth", "circuit">> -> <<"ca5">>
     [] OTHER -> <<"scotus">>]

SupremeCodes == {"tex", "ind", "cal", "fla", "neb", "ny"}
STATE_SUPREME_TO_STATE == [c \in SupremeCodes |->
   CASE c = "tex" -> <<"texas">>
     [] c = "ind" -> <<"indiana">>
     [] c = "cal" -> <<"california">>
     [] c = "fla" -> <<"florida">>
     [] c = "ny" -> <<"new", "york">>
     [] OTHER -> <<"nebraska">>]

Range(s) == {s[i] : i \in 1..Len(s)}

\* jurisdictions.ALL_COURTS: the court codes and the words of their names
CourtNames == [c \in UNION {Range(STATE_COURT_MAPPING[k]) : k \in MappingKeys} |->
   CASE c \in Range(TexasState) -> {"texas", "court"}
     [] c \in Range(TexasFederal) \ {"ca5"} -> {"texas", "district"}
     [] c \in Range(IndianaState) -> {"indiana", "court"}
     [] c \in Range(IndianaFederal) \ {"ca7"} -> {"indiana", "district"}
     [] c \in Range(CaliforniaState) -> {"california", "court"}
     [] c \in Range(CaliforniaFederal) \ {"ca9"} -> {"california", "district"}
     [] c = "calag" -> {"california", "attorney", "general"}
     [] c \in Range(FloridaState) -> {"florida", "court"}
     [] c \in Range(FloridaFederal) \ {"ca11"} -> {"florida", "district"}
     [] c = "flaag" -> {"florida", "attorney", "general"}
     [] c \in Range(NebraskaState) -> {"nebraska", "court"}
     [] c = "ned" -> {"nebraska", "district"}
     [] c = "ca5" -> {"fifth", "circuit", "appeals"}
     [] c = "ca7" -> {"seventh", "circuit", "appeals"}
     [] c = "ca8" -> {"eighth", "circuit", "appeals"}
     [] c = "ca9" -> {"ninth", "circuit", "appeals"}
     [] c = "ca11" -> {"eleventh", "circuit", "appeals"}
     [] c \in Range(NewYorkState) -> {"new", "york", "court"}
     [] c \in Range(NewYorkFederal) \ {"ca2"} -> {"new", "york", "district"}
     [] c \in Range(AllFederal) \ {"scotus"} -> {"circuit", "appeals"}
     [] OTHER -> {"supreme", "court", "united", "states"}]
ALL_COURTS == DOMAIN CourtNames

\* the order in which search_courts lists the codes
CourtOrder ==
   AllFederal \o TexasState \o IndianaState
      \o CaliforniaState \o FloridaState \o NebraskaState \o NewYorkState
      \o Tail(TexasFederal) \o Tail(IndianaFederal) \o Tail(CaliforniaFederal)
      \o Tail(FloridaFederal) \o Tail(NewYorkFederal) \o <<"ned", "calag", "flaag">>

\* the subsequence of s whose elements satisfy Keep
RECURSIVE SelectWords(_, _)
SelectWords(s, keep) ==
   IF s = <<>> THEN <<>>
   ELSE IF Head(s) \in keep THEN <<Head(s)>> \o SelectWords(Tail(s), keep)
   ELSE SelectWords(Tail(s), keep)

RECURSIVE DropWords(_, _)
DropWords(s, drop) ==
   IF s = <<>> THEN <<>>
   ELSE IF Head(s) \in drop THEN DropWords(Tail(s), drop)
   ELSE <<Head(s)>> \o DropWords(Tail(s), drop)

\* jurisdictions.search_courts: the codes whose name holds a word of the phrase
search_courts(words) ==
   SelectWords(CourtOrder, {c \in ALL_COURTS : \E k \in 1..Len(words) : words[k] \in CourtNames[c]})

\* least i with w[i..] starting with pat (a sequence of sets of words), 0 if none
FirstAt(w, pat) ==
   LET hits == {i \in 1..Len(w) : /\ i + Len(pat) - 1 <= Len(w)
                                  /\ \A k \in 1..Len(pat) : w[i + k - 1] \in pat[k]}
   IN  IF hits = {} THEN 0 ELSE CHOOSE i \in hits : \A j \in hits : i <= j

\* lines 707-727, the filler words kept
NormalizePhraseKeepFillers(w) ==
   LET so == FirstAt(w, <<{"state"}, {"of"}>>)
       n1 == IF so # 0 /\ so + 2 <= Len(w) THEN Slice(w, so + 2, so + 3 - (IF so + 3 > Len(w) THEN 1 ELSE 0)) ELSE w
       fi == FirstAt(n1, <<{"federal"}, {"court", "courts"}, {"in"}>>)
       n2 == IF fi # 0 /\ fi + 3 <= Len(n1)
             THEN Slice(n1, fi + 3, fi + 4 - (IF fi + 4 > Len(n1) THEN 1 ELSE 0)) \o <<"federal">>
             ELSE n1
       fc == FirstAt(n2, <<{"federal"}, {"court", "courts"}>>)
       n3 == IF fc > 1 THEN Slice(n2, IF fc > 2 THEN fc - 2 ELSE 1, fc - 1) \o <<"federal">> ELSE n2
   IN  n3
\* the normalisation of map_jurisdiction_to_codes (lines 707-732)
NormalizePhrase(w) ==
   LET so == FirstAt(w, <<{"state"}, {"of"}>>)
       n1 == IF so # 0 /\ so + 2 <= Len(w) THEN Slice(w, so + 2, so + 3 - (IF so + 3 > Len(w) THEN 1 ELSE 0)) ELSE w
       fi == FirstAt(n1, <<{"federal"}, {"court", "courts"}, {"in"}>>)
       n2 == IF fi # 0 /\ fi + 3 <= Len(n1)
             THEN Slice(n1, fi + 3, fi + 4 - (IF fi + 4 > Len(n1) THEN 1 ELSE 0)) \o <<"federal">>
             ELSE n1
       fc == FirstAt(n2, <<{"federal"}, {"court", "courts"}>>)
       n3 == IF fc > 1 THEN Slice(n2, IF fc > 2 THEN fc - 2 ELSE 1, fc - 1) \o <<"federal">> ELSE n2
   IN  DropWords(n3, {"court", "courts", "the", "in", "of"})

\* lines 769-771: the phrase is one state supreme court code of a listed state
ExpandsSupremeCodeUnlessCourt(words) ==
   /\ Len(words) = 1
   /\ words[1] \in DOMAIN STATE_SUPREME_TO_STATE
   /\ STATE_SUPREME_TO_STATE[words[1]] \in DOMAIN STATE_COURT_MAPPING
   /\ words[1] \notin ALL_COURTS
ExpandsSupremeCode(words) ==
   /\ Len(words) = 1
   /\ words[1] \in DOMAIN STATE_SUPREME_TO_STATE
   /\ STATE_SUPREME_TO_STATE[words[1]] \in DOMAIN STATE_COURT_MAPPING

\* line 705: jurisdiction_input.lower().strip()
LowerStripKeepCase(jurisdiction_input) == Strip(jurisdiction_input)
LowerStrip(jurisdiction_input) == Strip(Lower(jurisdiction_input))

\* the description of a code list: the names of its first five courts (a name
\* is held as its code) and how many more there are
Describe(code_list) ==
   [text |-> "names", shown |-> Take(code_list, 5),
    more |-> IF Len(code_list) > 5 THEN Len(code_list) - 5 ELSE 0]
NoDescription == [text |-> "", shown |-> <<>>, more |-> 0]

\* lines 697-703: the result for an empty input
EmptyJurisdictionInvalid ==
   [valid |-> FALSE, court_codes |-> <<>>, description |-> NoDescription, step |-> "empty"]
EmptyJurisdictionResult ==
   [valid |-> TRUE, court_codes |-> <<>>,
    description |-> [NoDescription EXCEPT !.text = "All courts (no jurisdiction filter)"],
    step |-> "empty"]

map_jurisdiction_to_codes(jurisdiction_input) ==
   IF ~Truthy(jurisdiction_input)
   THEN EmptyJurisdictionResult
   ELSE LET jurisdiction_lower == PhraseWords(LowerStrip(jurisdiction_input))
            single == SingleSpaced(LowerStrip(jurisdiction_input))
            normalized == NormalizePhrase(jurisdiction_lower)
            matches == search_courts(jurisdiction_lower)
        IN  IF single /\ jurisdiction_lower \in DOMAIN STATE_COURT_MAPPING
            THEN [valid |-> TRUE, court_codes |-> STATE_COURT_MAPPING[jurisdiction_lower],
                  description |-> Describe(STATE_COURT_MAPPING[jurisdiction_lower]), step |-> "exact"]
            ELSE IF normalized # <<>> /\ (normalized # jurisdiction_lower \/ ~single)
                    /\ normalized \in DOMAIN STATE_COURT_MAPPING
            THEN [valid |-> TRUE, court_codes |-> STATE_COURT_MAPPING[normalized],
                  description |-> Describe(STATE_COURT_MAPPING[normalized]), step |-> "normalized"]
            ELSE IF ExpandsSupremeCode(jurisdiction_lower)
            THEN [valid |-> TRUE,
                  court_codes |-> STATE_COURT_MAPPING[STATE_SUPREME_TO_STATE[jurisdiction_lower[1]]],
                  description |->
                     Describe(STATE_COURT_MAPPING[STATE_SUPREME_TO_STATE[jurisdiction_lower[1]]]),
                  step |-> "expanded"]
            ELSE IF \A k \in 1..Len(jurisdiction_lower) : jurisdiction_lower[k] \in ALL_COURTS
            THEN [valid |-> TRUE, court_codes |-> jurisdiction_lower,
                  description |-> [text |-> "names", shown |-> jurisdiction_lower, more |-> 0],
                  step |-> "codes"]
            ELSE IF matches # <<>>
            THEN [valid |-> TRUE, court_codes |-> Take(matches, 10),
                  description |-> Describe(matches), step |-> "fuzzy"]
            ELSE [valid |-> FALSE, court_codes |-> <<>>, description |-> NoDescription,
                  step |-> "none"]

(***************************************************************************)
(* DateRangeParser: src/tools.py, parse_date_input.  The input is text; a  *)
(* date of the result is kept as what it is made from: today, today less a *)
(* number of days, the first or last day of a year, a day written out.     *)
(***************************************************************************)
NoDate == [kind |-> "none", n |-> 0]
Today == [kind |-> "today", n |-> 0]
\* today - timedelta(days=d)
TodayMinus(d) == [kind |-> "today_minus_days", n |-> d]
\* 01/01/YYYY and 12/31/YYYY
Jan1(y) == [kind |-> "jan1", n |-> y]
Dec31(y) == [kind |-> "dec31", n |-> y]
\* the text MM/DD/YYYY, as the number YYYYMMDD
DateMDY(mm, dd, yyyy) == [kind |-> "date", n |-> yyyy * 10000 + mm * 100 + dd]

\* \d
IsDigit(c) == c \in Digits
\* first position >= i that is not a digit
RECURSIVE DigitsEnd(_, _)
DigitsEnd(s, i) == IF i <= Len(s) /\ IsDigit(s[i]) THEN DigitsEnd(s, i + 1) ELSE i
\* \d{n} at position i
DigitsAt(s, i, n) == i >= 1 /\ i + n - 1 <= Len(s) /\ \A k \in i..(i + n - 1) : IsDigit(s[k])

digitOf == [c \in Digits |->
   CASE c = "0" -> 0 [] c = "1" -> 1 [] c = "2" -> 2 [] c = "3" -> 3 [] c = "4" -> 4
     [] c = "5" -> 5 [] c = "6" -> 6 [] c = "7" -> 7 [] c = "8" -> 8 [] c = "9" -> 9]
\* int() of a string of digits
RECURSIVE IntOf(_)
IntOf(ds) ==
   IF ds = <<>> THEN 0 ELSE IntOf(SubSeq(ds, 1, Len(ds) - 1)) * 10 + digitOf[ds[Len(ds)]]

\* one of the literals of lits is at position i of s: the position after it, else 0
AfterLiteral(s, i, lits) ==
   IF \E l \in lits : MatchesAt(s, i, l)
   THEN i + Len(CHOOSE l \in lits : MatchesAt(s, i, l))
   ELSE 0

\* the least element of a set of positions, 0 when it is empty
Leftmost(S) == IF S = {} THEN 0 ELSE CHOOSE i \in S : \A j \in S : i <= j

\* (?:last|past)\s+(\d+)\s+years? matched at i: the group, <<>> when no match
LastYearsAt(s, i) ==
   LET j == AfterLiteral(s, i, {<<"l","a","s","t">>, <<"p","a","s","t">>})
       k == SkipSpace(s, j)
       e == DigitsEnd(s, k)
       y == SkipSpace(s, e)
   IN  IF j # 0 /\ k > j /\ e > k /\ y > e /\ MatchesAt(s, y, <<"y","e","a","r">>)
       THEN Slice(s, k, e - 1) ELSE <<>>
\* (\d+)\s+(?:last|past)\s+years? matched at i
YearsLastAt(s, i) ==
   LET e == DigitsEnd(s, i)
       k == SkipSpace(s, e)
       j == AfterLiteral(s, k, {<<"l","a","s","t">>, <<"p","a","s","t">>})
       y == SkipSpace(s, j)
   IN  IF e > i /\ k > e /\ j # 0 /\ y > j /\ MatchesAt(s, y, <<"y","e","a","r">>)
       THEN Slice(s, i, e - 1) ELSE <<>>
\* (\d{4})\s*(?:to|-)\s*(\d{4}) matched at i: the two groups
RangeAt(s, i) ==
   LET k == SkipSpace(s, i + 4)
       j == AfterLiteral(s, k, {<<"t","o">>, <<"-">>})
       m == SkipSpace(s, j)
   IN  IF DigitsAt(s, i, 4) /\ j # 0 /\ DigitsAt(s, m, 4)
       THEN <<Slice(s, i, i + 3), Slice(s, m, m + 3)>> ELSE <<>>
\* (?:since|after|from)\s+(\d{4}) matched at i
SinceAt(s, i) ==
   LET j == AfterLiteral(s, i, {<<"s","i","n","c","e">>, <<"a","f","t","e","r">>, <<"f","r","o","m">>})
       k == SkipSpace(s, j)
   IN  IF j # 0 /\ k > j /\ DigitsAt(s, k, 4) THEN Slice(s, k, k + 3) ELSE <<>>
\* (?:before|until)\s+(\d{4})$ matched at i
BeforeAt(s, i) ==
   LET j == AfterLiteral(s, i, {<<"b","e","f","o","r","e">>, <<"u","n","t","i","l">>})
       k == SkipSpace(s, j)
   IN  IF j # 0 /\ k > j /\ DigitsAt(s, k, 4) /\ k + 3 = Len(s) THEN Slice(s, k, k + 3) ELSE <<>>

\* the description: the message and the text put into it
Description(text, echo) == [text |-> text, echo |-> echo]
\* str() of an int: the digits without leading zeros
RECURSIVE IntStr(_)
IntStr(ds) == IF Len(ds) > 1 /\ ds[1] = "0" THEN IntStr(Tail(ds)) ELSE ds

\* lines 830-836: the result for an empty input
EmptyDateResult ==
   [valid |-> TRUE, filed_after |-> NoDate, filed_before |-> NoDate,
    description |-> Description("All time (no date filter)", <<>>)]

\* lines 924-929 with the lowercased, stripped text in the message
CouldNotParseLower(date_input) ==
   [valid |-> FALSE, filed_after |-> NoDate, filed_before |-> NoDate,
    description |-> Description("Could not parse date", Strip(Lower(date_input)))]
\* lines 924-929
CouldNotParse(date_input) ==
   [valid |-> FALSE, filed_after |-> NoDate, filed_before |-> NoDate,
    description |-> Description("Could not parse date", date_input)]

\* lines 847-855
LastYearsResult(years) ==
   [valid |-> TRUE, filed_after |-> TodayMinus(IntOf(years) * 365), filed_before |-> Today,
    description |-> Description("Last N year(s)", IntStr(years))]

\* lines 843-846: group 1 of last_years_match, <<>> when neither pattern is found
last_years_match(date_input) ==
   LET date_lower == Strip(Lower(date_input))
       P == 1..Len(date_lower)
       ly == Leftmost({i \in P : LastYearsAt(date_lower, i) # <<>>})
       yl == Leftmost({i \in P : YearsLastAt(date_lower, i) # <<>>})
   IN  IF ly # 0 THEN LastYearsAt(date_lower, ly)
       ELSE IF yl # 0 THEN YearsLastAt(date_lower, yl)
       ELSE <<>>

parse_date_input(date_input) ==
   IF ~Truthy(date_input)
   THEN EmptyDateResult
   ELSE LET date_lower == Strip(Lower(date_input))
            P == 1..Len(date_lower)
            rg == Leftmost({i \in P : RangeAt(date_lower, i) # <<>>})
            sn == Leftmost({i \in P : SinceAt(date_lower, i) # <<>>})
            bf == Leftmost({i \in P : BeforeAt(date_lower, i) # <<>>})
        IN  IF last_years_match(date_input) # <<>>
            THEN LastYearsResult(last_years_match(date_input))
            ELSE IF rg # 0
            THEN [valid |-> TRUE,
                  filed_after |-> Jan1(IntOf(RangeAt(date_lower, rg)[1])),
                  filed_before |-> Dec31(IntOf(RangeAt(date_lower, rg)[2])),
                  description |-> Description("YYYY to YYYY",
                        RangeAt(date_lower, rg)[1] \o <<" ","t","o"," ">> \o RangeAt(date_lower, rg)[2])]
            ELSE IF sn # 0
            THEN [valid |-> TRUE,
                  filed_after |-> Jan1(IntOf(SinceAt(date_lower, sn))),
                  filed_before |-> Today,
                  description |-> Description("Since YYYY", SinceAt(date_lower, sn))]
            ELSE IF bf # 0
            THEN [valid |-> TRUE,
                  filed_after |-> NoDate,
                  filed_before |-> Dec31(IntOf(BeforeAt(date_lower, bf))),
                  description |-> Description("Before YYYY", BeforeAt(date_lower, bf))]
            ELSE IF Len(date_lower) = 4 /\ DigitsAt(date_lower, 1, 4)
            THEN [valid |-> TRUE,
                  filed_after |-> Jan1(IntOf(date_lower)),
                  filed_before |-> Dec31(IntOf(date_lower)),
                  description |-> Description("Year YYYY", date_lower)]
            ELSE IF /\ Len(date_lower) = 10
                    /\ DigitsAt(date_lower, 1, 2) /\ date_lower[3] = "/"
                    /\ DigitsAt(date_lower, 4, 2) /\ date_lower[6] = "/"
                    /\ DigitsAt(date_lower, 7, 4)
            THEN [valid |-> TRUE,
                  filed_after |-> DateMDY(IntOf(Slice(date_lower, 1, 2)),
                                          IntOf(Slice(date_lower, 4, 5)),
                                          IntOf(Slice(date_lower, 7, 10))),
                  filed_before |-> NoDate,
                  description |-> Description("After MM/DD/YYYY", date_lower)]
            ELSE IF /\ Len(date_lower) = 10
                    /\ DigitsAt(date_lower, 1, 4) /\ date_lower[5] = "-"
                    /\ DigitsAt(date_lower, 6, 2) /\ date_lower[8] = "-"
                    /\ DigitsAt(date_lower, 9, 2)
            THEN [valid |-> TRUE,
                  filed_after |-> DateMDY(IntOf(Slice(date_lower, 6, 7)),
                                          IntOf(Slice(date_lower, 9, 10)),
                                          IntOf(Slice(date_lower, 1, 4))),
                  filed_before |-> NoDate,
                  description |-> Description("After MM/DD/YYYY",
                        Slice(date_lower, 6, 7) \o <<"/">> \o Slice(date_lower, 9, 10)
                           \o <<"/">> \o Slice(date_lower, 1, 4))]
            ELSE CouldNotParse(date_input)

(***************************************************************************)
(* The request, the search client and the reranker                         *)
(***************************************************************************)
MissingStr == "<Missing>"
NoneStr == "<None>"

\* the queries the requests of the model use
QNatural == <<"s","l","i","p"," ","f","a","l","l">>
QBoolean == <<"s","l","i","p"," ","A","N","D"," ","f","a","l","l">>
QKeyword == <<"f","a","l","l"," ","O","R"," ","t","r","i","p">>
ROnly == <<"k","e","y","w","o","r","d"," ","O","N","L","Y">>

\* arguments dicts of execute_search_case_law
AllRequests ==
   [query : {None, QNatural, QBoolean},
    extracted_query : {Missing},
    keyword_query : {Missing, QKeyword},
    search_type : {"keyword", "semantic", "both"},
    reasoning : {Missing, None, ROnly},
    court : {<<"t","e","x">>},
    jurisdiction : {Missing},
    filed_after : {NoDate},
    filed_before : {NoDate},
    date_range : {Missing},
    status : {MissingStr},
    order_by : {MissingStr},
    cited_gt : {NoneStr},
    cursor : {NoneStr},
    page_size : {3}]
\* a request for both searches leaves reasoning out
Requests == {r \in AllRequests : r.search_type = "both" => r.reasoning = Missing}

Branches == {"keyword", "semantic"}

\* a case dict of a branch response: the ix-th result of branch br, about case `case`
Obj(br, ix) ==
   [br |-> br, ix |-> ix,
    case |-> IF br = "keyword" THEN ix ELSE ix + keyword_top_n - 1]
Objects == {Obj(br, ix) : br \in Branches, ix \in 1..MaxFetch}

\* courtlistener_client.search(...)["results"] when the branch finds n cases
SearchResults(br, n) == [i \in 1..n |-> Obj(br, i)]

\* the exception a failing search call raises
SearchError(br) ==
   IF br = "keyword" THEN [type |-> "HTTPError", msg |-> "keyword search failed"]
   ELSE [type |-> "Timeout", msg |-> "semantic search failed"]
NoExc == [type |-> "", msg |-> ""]

\* the sequences of k different elements of S
RECURSIVE Arrangements(_, _)
Arrangements(S, k) ==
   IF k = 0 THEN {<<>>}
   ELSE UNION {{<<x>> \o t : t \in Arrangements(S \ {x}, k - 1)} : x \in S}

Min(a, b) == IF a <= b THEN a ELSE b

\* CohereReranker.rerank(query, documents, top_n, return_documents=True):
\* an ordered subset of the documents, of at most top_n
RerankOutputs(documents, top_n) ==
   UNION {Arrangements(Range(documents), k) : k \in 0..Min(top_n, Len(documents))}

\* what the reranker is at a call site: its module is missing (the import
\* raises), is_available() is false, rerank() returns, rerank() raises
RerankerStates == {"missing", "unavailable", "ok", "raises"}

(***************************************************************************)
(* State                                                                   *)
(***************************************************************************)
VARIABLES
   arguments,        \* the arguments dict
   client,           \* "present", or "absent" when courtlistener_client is None
   pc,               \* position of the calling thread in execute_search_case_law
   exc,              \* the exception being propagated (NoExc when none)
   search_type, query, keyword_query, court, filed_after, filed_before,
   metadata,         \* the _metadata dict
   future,           \* the two futures of the ThreadPoolExecutor
   finished,         \* the search types of the calls that ended, in the order they ended
   calls,            \* bag of the search calls issued to the client
   reranker,         \* the reranker's state at the call site ("unknown" before)
   keyword_results, semantic_results, all_cases,
   keyword_top_5, semantic_top_5, final_results,
   tag,              \* the _search_source field of every case dict
   outcome,          \* the returned dict (NoOutcome until the return)
   session,          \* main(): the locals of the conversation loop and what it showed
   chat              \* LLMClient.chat: the locals of one call

vars == <<arguments, client, pc, exc, search_type, query, keyword_query, court,
          filed_after, filed_before, metadata, future, finished, calls, reranker,
          keyword_results, semantic_results, all_cases,
          keyword_top_5, semantic_top_5, final_results, tag, outcome, session, chat>>

\* the variables of execute_search_case_law
searchVars == <<arguments, client, pc, exc, search_type, query, keyword_query, court,
                filed_after, filed_before, metadata, future, finished, calls, reranker,
                keyword_results, semantic_results, all_cases,
                keyword_top_5, semantic_top_5, final_results, tag, outcome>>

\* no conversation loop and no chat call
NoSession == [running |-> FALSE]
NoChat == [at |-> "none"]
Idle == session = NoSession /\ chat = NoChat

NoOutcome ==
   [success |-> FALSE, count |-> -1, results |-> <<>>, error |-> Absent,
    error_type |-> Absent, returned |-> FALSE]
NoMetadata ==
   [semantic_query |-> <<>>, keyword_query |-> <<>>, search_type |-> "",
    court |-> <<>>, page_size_per_search |-> 0, semantic_reranked |-> FALSE,
    dual_search |-> FALSE, keyword_results_count |-> -1,
    semantic_results_count |-> -1, keyword_shown |-> -1, semantic_shown |-> -1]
NoFuture == [st |-> "none", res |-> <<>>]

\* the state of a call before its first step, the request apart
Blank ==
   /\ pc = "call"
   /\ exc = NoExc
   /\ search_type = ""
   /\ query = <<>>
   /\ keyword_query = <<>>
   /\ court = <<>>
   /\ filed_after = NoDate
   /\ filed_before = NoDate
   /\ metadata = NoMetadata
   /\ future = [b \in Branches |-> NoFuture]
   /\ finished = <<>>
   /\ calls = EmptyBag
   /\ reranker = "unknown"
   /\ keyword_results = <<>>
   /\ semantic_results = <<>>
   /\ all_cases = <<>>
   /\ keyword_top_5 = <<>>
   /\ semantic_top_5 = <<>>
   /\ final_results = <<>>
   /\ tag = [o \in Objects |-> "none"]
   /\ outcome = NoOutcome

Init ==
   /\ arguments \in Requests
   /\ Idle
   /\ client \in {"present", "absent"}
   /\ Blank

(***************************************************************************)
(* execute_search_case_law, lines 1151-1254: parameters, filters, metadata *)
(***************************************************************************)
original_query(args) == Get(args.query, Get(args.extracted_query, <<>>))
requested_search_type(args) ==
   IF args.search_type = MissingStr THEN "semantic" ELSE args.search_type
reasoning_of(args) == Get(args.reasoning, <<>>)

\* lines 1172-1175
explicit_single_search_cased(args) ==
   /\ args.search_type \in {"keyword", "semantic"}
   /\ Contains(<<"o","n","l","y">>, Get(args.reasoning, <<>>))
explicit_single_search(args) ==
   /\ requested_search_type(args) \in {"keyword", "semantic"}
   /\ Contains(<<"o","n","l","y">>, Lower(reasoning_of(args)))

\* the days before 1 January of year y (proleptic Gregorian calendar)
DaysBeforeYear(y) == (y - 1) * 365 + ((y - 1) \div 4) - ((y - 1) \div 100) + ((y - 1) \div 400)
\* the days the clock reads: 3 November 2026 and 31 December 2024
Clock == {DaysBeforeYear(2026) + 307, DaysBeforeYear(2025)}

\* the greatest number of days of a timedelta, and the day number of date.min
MaxDeltaDays == 999999999
MinDay == 1
\* line 849: what today - timedelta(days=years * 365) raises on the day `today`,
\* a day number counted from 01/01/0001 (NoExc if nothing)
LastYearsError(years, today) ==
   IF IntOf(years) * 365 > MaxDeltaDays
   THEN [type |-> "OverflowError", msg |-> "must have magnitude <= 999999999"]
   ELSE IF today - IntOf(years) * 365 < MinDay
   THEN [type |-> "OverflowError", msg |-> "date value out of range"]
   ELSE NoExc
\* what parse_date_input raises
ParseDateError(date_input, today) ==
   IF Truthy(date_input) /\ last_years_match(date_input) # <<>>
   THEN LastYearsError(last_years_match(date_input), today)
   ELSE NoExc

\* the exception that lines 1152-1207 raise outside the try block (NoExc if none)
PrepareError(args) ==
   IF original_query(args) = None
   THEN [type |-> "TypeError", msg |-> "expected string or bytes-like object"]
   ELSE IF requested_search_type(args) \in {"keyword", "semantic"} /\ reasoning_of(args) = None
   THEN [type |-> "AttributeError", msg |-> "'NoneType' object has no attribute 'lower'"]
   ELSE NoExc

\* lines 1161-1168: the semantic query
query_of(args) ==
   IF has_boolean_operators(original_query(args))
   THEN convert_boolean_to_natural_language(original_query(args))
   ELSE original_query(args)

\* lines 1153, 1164, 1185-1194: the keyword query
keyword_query_of(args) ==
   LET kq0 == Get(args.keyword_query, <<>>)
       kq1 == IF has_boolean_operators(original_query(args)) /\ ~Truthy(kq0)
              THEN original_query(args) ELSE kq0
   IN  IF ~explicit_single_search(args) /\ ~Truthy(kq1)
       THEN auto_keyword_query(query_of(args))
       ELSE kq1

\* lines 1177-1182
search_type_of(args) ==
   IF explicit_single_search(args) THEN requested_search_type(args) ELSE "both"

\* lines 1197-1207
court_of(args) ==
   LET c == Get(args.court, <<>>)
   IN  IF Truthy(c)
       THEN IF map_jurisdiction_to_codes(c).court_codes # <<>>
            THEN map_jurisdiction_to_codes(c).court_codes ELSE c
       ELSE IF Truthy(args.jurisdiction)
       THEN map_jurisdiction_to_codes(args.jurisdiction).court_codes
       ELSE c

\* lines 1210-1216
UseDateRange(args) ==
   args.filed_after = NoDate /\ args.filed_before = NoDate /\ Truthy(args.date_range)
\* what line 1214 raises outside the try block
DateRangeError(args, today) ==
   IF UseDateRange(args) THEN ParseDateError(args.date_range, today) ELSE NoExc
filed_after_of(args) ==
   IF UseDateRange(args) THEN parse_date_input(args.date_range).filed_after ELSE args.filed_after
filed_before_of(args) ==
   IF UseDateRange(args) THEN parse_date_input(args.date_range).filed_before ELSE args.filed_before

\* lines 1219-1225
status_of(args) == IF args.status = MissingStr THEN "published" ELSE args.status
order_by_of(args) == IF args.order_by = MissingStr THEN "score desc" ELSE args.order_by
PageSizeRequested(args) == args.page_size
PageSize(args) == page_size_per_search

\* lines 1247-1254: the outcome when there is no client
ClientMissingOutcome ==
   [success |-> FALSE, count |-> 0, results |-> <<>>,
    error |-> "Search client not available", error_type |-> Absent, returned |-> TRUE]

\* lines 1152-1216 raise outside the try block: the first exception met
RaisedInPrepare(args, today) ==
   IF PrepareError(args) # NoExc THEN PrepareError(args) ELSE DateRangeError(args, today)

Prepare ==
   /\ pc = "call"
   /\ \E today \in Clock :
      IF RaisedInPrepare(arguments, today) # NoExc
      THEN /\ pc' = "raised"
           /\ exc' = RaisedInPrepare(arguments, today)
           /\ UNCHANGED <<search_type, query, keyword_query, court, filed_after,
                          filed_before, metadata, outcome>>
      ELSE /\ search_type' = search_type_of(arguments)
           /\ query' = query_of(arguments)
           /\ keyword_query' = keyword_query_of(arguments)
           /\ court' = court_of(arguments)
           /\ filed_after' = filed_after_of(arguments)
           /\ filed_before' = filed_before_of(arguments)
           /\ metadata' = [NoMetadata EXCEPT
                 !.semantic_query = query_of(arguments),
                 !.keyword_query = keyword_query_of(arguments),
                 !.search_type = search_type_of(arguments),
                 !.court = court_of(arguments),
                 !.page_size_per_search = page_size_per_search,
                 !.dual_search = (search_type_of(arguments) = "both")]
           /\ IF client = "absent"
              THEN pc' = "done" /\ outcome' = ClientMissingOutcome
              ELSE pc' = "try" /\ outcome' = outcome
           /\ exc' = exc
   /\ UNCHANGED <<session, chat, arguments, client, future, finished, calls, reranker,
                  keyword_results, semantic_results, all_cases,
                  keyword_top_5, semantic_top_5, final_results, tag>>

(***************************************************************************)
(* Dual search, lines 1259-1347                                            *)
(***************************************************************************)
\* the keyword arguments of one courtlistener_client.search call
SearchCall(q, type) ==
   [query |-> q, search_type |-> type, court |-> court,
    filed_after |-> filed_after, filed_before |-> filed_before,
    status |-> status_of(arguments), order_by |-> order_by_of(arguments),
    cited_gt |-> arguments.cited_gt, page_size |-> PageSize(arguments),
    cursor |-> arguments.cursor]

\* run_keyword_search and run_semantic_search, lines 1265-1291
BranchCall(b) ==
   IF b = "keyword" THEN SearchCall(keyword_query, "keyword")
   ELSE SearchCall(query, "semantic")

\* Future.done(), and whether Future.result() re-raises
FutureDone(f) == f.st \in {"returned", "raised"}
FutureRaisedSwallowed(f) == FALSE
FutureRaised(f) == f.st = "raised"

\* lines 1261-1263 and 1295: executor.submit(run_keyword_search)
SubmitKeyword ==
   /\ pc = "try"
   /\ search_type = "both"
   /\ keyword_query' = IF ~Truthy(keyword_query) THEN query ELSE keyword_query
   /\ future' = [future EXCEPT !["keyword"].st = "queued"]
   /\ pc' = "submit_semantic"
   /\ UNCHANGED <<session, chat, arguments, client, exc, search_type, query, court, filed_after,
                  filed_before, metadata, finished, calls, reranker,
                  keyword_results, semantic_results, all_cases,
                  keyword_top_5, semantic_top_5, final_results, tag, outcome>>

\* line 1296: executor.submit(run_semantic_search)
SubmitSemantic ==
   /\ pc = "submit_semantic"
   /\ future' = [future EXCEPT !["semantic"].st = "queued"]
   /\ pc' = "keyword_result"
   /\ UNCHANGED <<session, chat, arguments, client, exc, search_type, query, keyword_query, court,
                  filed_after, filed_before, metadata, finished, calls, reranker,
                  keyword_results, semantic_results, all_cases,
                  keyword_top_5, semantic_top_5, final_results, tag, outcome>>

\* a submitted task that no worker thread has taken yet
StartableAgain(f) == f.st \in {"queued", "running"} /\ BagCardinality(calls) < 3
Startable(f) == f.st = "queued"

\* a worker thread of the pool starts the call of branch b
WorkerStart(b) ==
   /\ Startable(future[b])
   /\ future' = [future EXCEPT ![b].st = "running"]
   /\ calls' = calls (+) SetToBag({BranchCall(b)})
   /\ UNCHANGED <<session, chat, arguments, client, pc, exc, search_type, query, keyword_query, court,
                  filed_after, filed_before, metadata, finished, reranker,
                  keyword_results, semantic_results, all_cases,
                  keyword_top_5, semantic_top_5, final_results, tag, outcome>>

\* the call of branch b returns a response with n results
WorkerReturn(b) ==
   /\ future[b].st = "running"
   /\ \E n \in 0..MaxFetch :
         future' = [future EXCEPT ![b] = [st |-> "returned", res |-> SearchResults(b, n)]]
   /\ finished' = Append(finished, b)
   /\ UNCHANGED <<session, chat, arguments, client, pc, exc, search_type, query, keyword_query, court,
                  filed_after, filed_before, metadata, calls, reranker,
                  keyword_results, semantic_results, all_cases,
                  keyword_top_5, semantic_top_5, final_results, tag, outcome>>

\* the call of branch b raises
WorkerRaise(b) ==
   /\ future[b].st = "running"
   /\ future' = [future EXCEPT ![b].st = "raised"]
   /\ finished' = Append(finished, b)
   /\ UNCHANGED <<session, chat, arguments, client, pc, exc, search_type, query, keyword_query, court,
                  filed_after, filed_before, metadata, calls, reranker,
                  keyword_results, semantic_results, all_cases,
                  keyword_top_5, semantic_top_5, final_results, tag, outcome>>

\* line 1298: keyword_results = keyword_future.result()
KeywordResult ==
   /\ pc = "keyword_result"
   /\ FutureDone(future["keyword"])
   /\ IF FutureRaised(future["keyword"])
      THEN /\ exc' = SearchError("keyword")
           /\ pc' = "exit_with"
           /\ UNCHANGED keyword_results
      ELSE /\ keyword_results' = future["keyword"].res
           /\ pc' = "semantic_result"
           /\ UNCHANGED exc
   /\ UNCHANGED <<session, chat, arguments, client, search_type, query, keyword_query, court,
                  filed_after, filed_before, metadata, future, finished, calls, reranker,
                  semantic_results, all_cases,
                  keyword_top_5, semantic_top_5, final_results, tag, outcome>>

\* line 1299: semantic_results = semantic_future.result()
SemanticResult ==
   /\ pc = "semantic_result"
   /\ FutureDone(future["semantic"])
   /\ IF FutureRaised(future["semantic"])
      THEN /\ exc' = SearchError("semantic")
           /\ UNCHANGED semantic_results
      ELSE /\ semantic_results' = future["semantic"].res
           /\ UNCHANGED exc
   /\ pc' = "exit_with"
   /\ UNCHANGED <<session, chat, arguments, client, search_type, query, keyword_query, court,
                  filed_after, filed_before, metadata, future, finished, calls, reranker,
                  keyword_results, all_cases,
                  keyword_top_5, semantic_top_5, final_results, tag, outcome>>

\* an executor left without joining its worker threads, as shutdown(wait=False)
ExecutorShutdownNoWait == TRUE
\* ThreadPoolExecutor.__exit__: shutdown(wait=True) joins the worker threads
ExecutorShutdown == \A b \in Branches : future[b].st \in {"returned", "raised"}

\* line 1294, end of the with block
ExitWith ==
   /\ pc = "exit_with"
   /\ ExecutorShutdown
   /\ pc' = IF exc # NoExc THEN "except" ELSE "merge"
   /\ UNCHANGED <<session, chat, arguments, client, exc, search_type, query, keyword_query, court,
                  filed_after, filed_before, metadata, future, finished, calls, reranker,
                  keyword_results, semantic_results, all_cases,
                  keyword_top_5, semantic_top_5, final_results, tag, outcome>>

\* keyword_cases[:keyword_top_n] and semantic_cases[:semantic_top_n]
KeywordTopAll(cases) == cases
KeywordTop(cases) == Take(cases, keyword_top_n)
FallbackTopAll(cases) == cases
FallbackTop(cases) == Take(cases, semantic_top_n)

\* case["_search_source"] = src for every case of the list
TagAll(t, cases, src) == [o \in Objects |-> IF o \in Range(cases) THEN src ELSE t[o]]

\* line 1317: is the rerank call made, in dual mode
DualCallsReranker(r, cases) == r \in {"ok", "raises"} /\ Len(cases) > 0

\* line 1340
CombineAsCompleted(kw_top, sem_top) ==
   IF finished # <<>> /\ finished[1] = "semantic" THEN sem_top \o kw_top ELSE kw_top \o sem_top
CombineDeduplicated(kw_top, sem_top) ==
   kw_top \o SelectSeq(sem_top, LAMBDA o : \A i \in 1..Len(kw_top) : kw_top[i].case # o.case)
Combine(kw_top, sem_top) == kw_top \o sem_top

\* lines 1399-1407
SuccessOutcome(results) ==
   [success |-> TRUE, count |-> Len(results), results |-> results,
    error |-> Absent, error_type |-> Absent, returned |-> TRUE]

\* lines 1335-1347 and 1399-1407: tag the semantic block, combine, return
DualReturn(kw_top, sem_top, reranked) ==
   /\ semantic_top_5' = sem_top
   /\ tag' = TagAll(TagAll(tag, kw_top, "keyword"), sem_top, "semantic")
   /\ final_results' = Combine(kw_top, sem_top)
   /\ metadata' = [metadata EXCEPT
         !.semantic_reranked = reranked,
         !.keyword_results_count = Len(keyword_results),
         !.semantic_results_count = Len(semantic_results),
         !.keyword_shown = Len(kw_top),
         !.semantic_shown = Len(sem_top)]
   /\ outcome' = SuccessOutcome(Combine(kw_top, sem_top))
   /\ pc' = "done"

\* lines 1301-1317 and 1327-1333: the keyword block is cut and tagged, the
\* reranker is imported, constructed and probed; when no rerank call is made
\* the function runs on to its return
Merge ==
   /\ pc = "merge"
   /\ keyword_top_5' = KeywordTop(keyword_results)
   /\ \E r \in RerankerStates :
         /\ reranker' = r
         /\ IF DualCallsReranker(r, semantic_results)
            THEN /\ pc' = "reranking"
                 /\ tag' = TagAll(tag, KeywordTop(keyword_results), "keyword")
                 /\ UNCHANGED <<semantic_top_5, final_results, metadata, outcome>>
            ELSE DualReturn(KeywordTop(keyword_results), FallbackTop(semantic_results), FALSE)
   /\ UNCHANGED <<session, chat, arguments, client, exc, search_type, query, keyword_query, court,
                  filed_after, filed_before, future, finished, calls,
                  keyword_results, semantic_results, all_cases>>

\* lines 1319-1326: reranker.rerank(...) returns; then as DualReturn
RerankReturn ==
   /\ pc = "reranking"
   /\ reranker = "ok"
   /\ \E ranked \in RerankOutputs(semantic_results, semantic_top_n) :
         DualReturn(keyword_top_5, ranked, TRUE)
   /\ UNCHANGED <<session, chat, arguments, client, exc, search_type, query, keyword_query, court,
                  filed_after, filed_before, future, finished, calls, reranker,
                  keyword_results, semantic_results, all_cases, keyword_top_5>>

\* lines 1330-1333: reranker.rerank(...) raises; then as DualReturn
RerankRaise ==
   /\ pc = "reranking"
   /\ reranker = "raises"
   /\ DualReturn(keyword_top_5, FallbackTop(semantic_results), FALSE)
   /\ UNCHANGED <<session, chat, arguments, client, exc, search_type, query, keyword_query, court,
                  filed_after, filed_before, future, finished, calls, reranker,
                  keyword_results, semantic_results, all_cases, keyword_top_5>>

\* lines 1409-1418 with the results fetched before the failure left in the outcome
FailureOutcomeWithFetched(e) ==
   [success |-> FALSE, count |-> 0, results |-> keyword_results,
    error |-> e.msg, error_type |-> e.type, returned |-> TRUE]
\* lines 1409-1418
FailureOutcome(e) ==
   [success |-> FALSE, count |-> 0, results |-> <<>>,
    error |-> e.msg, error_type |-> e.type, returned |-> TRUE]

Except ==
   /\ pc = "except"
   /\ outcome' = FailureOutcome(exc)
   /\ exc' = NoExc
   /\ pc' = "done"
   /\ UNCHANGED <<session, chat, arguments, client, search_type, query, keyword_query, court,
                  filed_after, filed_before, metadata, future, finished, calls, reranker,
                  keyword_results, semantic_results, all_cases,
                  keyword_top_5, semantic_top_5, final_results, tag>>

(***************************************************************************)
(* LLMClient._format_search_results_message, src/llm_client.py lines       *)
(* 899-967: the message kept as its parts, the count it shows and the      *)
(* number ranges it offers, each with the search it names.                 *)
(***************************************************************************)
\* one range of range_text: '#first-last for <source> results', or '#first for
\* the <source> result' when first = last
NumberRange(first, last, source) == [first |-> first, last |-> last, source |-> source]

\* lines 929-940 with `current` left at 1 after the keyword range
DualRangesFromOne(keyword_shown, semantic_shown) ==
   (IF keyword_shown > 0 THEN <<NumberRange(1, keyword_shown, "keyword")>> ELSE <<>>)
   \o (IF semantic_shown > 0 THEN <<NumberRange(1, semantic_shown, "semantic")>> ELSE <<>>)
\* lines 929-940
DualRanges(keyword_shown, semantic_shown) ==
   LET current == IF keyword_shown > 0 THEN 1 + keyword_shown ELSE 1
   IN  (IF keyword_shown > 0 THEN <<NumberRange(1, 1 + keyword_shown - 1, "keyword")>> ELSE <<>>)
       \o (IF semantic_shown > 0
           THEN <<NumberRange(current, current + semantic_shown - 1, "semantic")>> ELSE <<>>)

\* the message for an outcome with this count and this _metadata
format_search_results_message(count, md) ==
   IF md.dual_search
   THEN [shown |-> count, ranges |-> DualRanges(md.keyword_shown, md.semantic_shown)]
   ELSE IF count = 0
   THEN [shown |-> 0, ranges |-> <<>>]
   ELSE [shown |-> count, ranges |-> <<NumberRange(1, count, md.search_type)>>]

(***************************************************************************)
(* Single search, lines 1349-1397                                          *)
(***************************************************************************)
\* lines 1351-1352
actual_search_type == IF search_type = "semantic" THEN "semantic" ELSE "keyword"
actual_query ==
   IF search_type = "semantic" THEN query
   ELSE IF Truthy(keyword_query) THEN keyword_query ELSE query

\* lines 1354-1365: the call is made on the calling thread
SingleCall ==
   /\ pc = "try"
   /\ search_type # "both"
   /\ calls' = calls (+) SetToBag({SearchCall(actual_query, actual_search_type)})
   /\ pc' = "single_search"
   /\ UNCHANGED <<session, chat, arguments, client, exc, search_type, query, keyword_query, court,
                  filed_after, filed_before, metadata, future, finished, reranker,
                  keyword_results, semantic_results, all_cases,
                  keyword_top_5, semantic_top_5, final_results, tag, outcome>>

\* line 1367: the call returns a response with n results
SingleReturn ==
   /\ pc = "single_search"
   /\ \E n \in 0..MaxFetch : all_cases' = SearchResults(actual_search_type, n)
   /\ finished' = Append(finished, actual_search_type)
   /\ pc' = "single_select"
   /\ UNCHANGED <<session, chat, arguments, client, exc, search_type, query, keyword_query, court,
                  filed_after, filed_before, metadata, future, calls, reranker,
                  keyword_results, semantic_results,
                  keyword_top_5, semantic_top_5, final_results, tag, outcome>>

\* the call raises, into the handler of line 1409
SingleRaise ==
   /\ pc = "single_search"
   /\ exc' = SearchError(actual_search_type)
   /\ finished' = Append(finished, actual_search_type)
   /\ pc' = "except"
   /\ UNCHANGED <<session, chat, arguments, client, search_type, query, keyword_query, court,
                  filed_after, filed_before, metadata, future, calls, reranker,
                  keyword_results, semantic_results, all_cases,
                  keyword_top_5, semantic_top_5, final_results, tag, outcome>>

\* line 1370: does single mode reach the reranker at all
SingleConsultsReranker(cases) == search_type = "semantic" /\ Len(cases) > semantic_top_n
\* line 1375: is the rerank call made, in single mode
SingleCallsReranker(r, cases) == SingleConsultsReranker(cases) /\ r \in {"ok", "raises"}

\* lines 1392-1393
SingleTop(cases) ==
   Take(cases, IF search_type = "keyword" THEN keyword_top_n ELSE semantic_top_n)

\* lines 1395-1407: tag and return
SingleFinish(results, reranked) ==
   /\ final_results' = results
   /\ tag' = TagAll(tag, results, actual_search_type)
   /\ metadata' = [metadata EXCEPT !.semantic_reranked = reranked]
   /\ outcome' = SuccessOutcome(results)
   /\ pc' = "done"

\* lines 1370-1375 and 1384-1393: when no rerank call is made the function
\* runs on to its return
SingleSelect ==
   /\ pc = "single_select"
   /\ IF SingleConsultsReranker(all_cases)
      THEN \E r \in RerankerStates :
              /\ reranker' = r
              /\ IF SingleCallsReranker(r, all_cases)
                 THEN /\ pc' = "single_reranking"
                      /\ UNCHANGED <<final_results, tag, metadata, outcome>>
                 ELSE SingleFinish(FallbackTop(all_cases), FALSE)
      ELSE /\ SingleFinish(SingleTop(all_cases), FALSE)
           /\ UNCHANGED reranker
   /\ UNCHANGED <<session, chat, arguments, client, exc, search_type, query, keyword_query, court,
                  filed_after, filed_before, future, finished, calls,
                  keyword_results, semantic_results, all_cases,
                  keyword_top_5, semantic_top_5>>

\* lines 1376-1383: reranker.rerank(...) returns
SingleRerankReturn ==
   /\ pc = "single_reranking"
   /\ reranker = "ok"
   /\ \E ranked \in RerankOutputs(all_cases, semantic_top_n) : SingleFinish(ranked, TRUE)
   /\ UNCHANGED <<session, chat, arguments, client, exc, search_type, query, keyword_query, court,
                  filed_after, filed_before, future, finished, calls, reranker,
                  keyword_results, semantic_results, all_cases,
                  keyword_top_5, semantic_top_5>>

\* lines 1386-1389: reranker.rerank(...) raises
SingleRerankRaise ==
   /\ pc = "single_reranking"
   /\ reranker = "raises"
   /\ SingleFinish(FallbackTop(all_cases), FALSE)
   /\ UNCHANGED <<session, chat, arguments, client, exc, search_type, query, keyword_query, court,
                  filed_after, filed_before, future, finished, calls, reranker,
                  keyword_results, semantic_results, all_cases,
                  keyword_top_5, semantic_top_5>>

(***************************************************************************)
(* Specification                                                           *)
(***************************************************************************)
Next ==
   \/ Prepare
   \/ SubmitKeyword
   \/ SubmitSemantic
   \/ \E b \in Branches : WorkerStart(b)
   \/ \E b \in Branches : WorkerReturn(b)
   \/ \E b \in Branches : WorkerRaise(b)
   \/ KeywordResult
   \/ SemanticResult
   \/ ExitWith
   \/ Merge
   \/ RerankReturn
   \/ RerankRaise
   \/ Except
   \/ SingleCall
   \/ SingleReturn
   \/ SingleRaise
   \/ SingleSelect
   \/ SingleRerankReturn
   \/ SingleRerankRaise

Spec == Init /\ [][Next]_vars

(***************************************************************************)
(* map_jurisdiction_to_codes on its own: `arguments` is the text given to  *)
(* the function and `outcome` the dict it returns.                         *)
(***************************************************************************)
\* the words of the model
Words == {
   "texas", "tx", "indiana", "in", "california", "ca", "florida", "fl", "fla", "nebraska",
   "ne", "state", "federal", "court", "courts", "of", "the", "fifth",
   "circuit", "supreme", "scotus", "ind", "tex", "neb", "ca5", "zzz",
   "district", "new", "york"}
\* the words the phrases of the model are drawn from
Vocabulary == {"texas", "in", "california", "fla", "state", "federal", "courts",
               "of", "the", "ind", "ca5", "zzz"}
\* how a word is spelled
Spelling == [w \in Words |->
   CASE w = "texas" -> <<"t","e","x","a","s">>
     [] w = "tx" -> <<"t","x">>
     [] w = "indiana" -> <<"i","n","d","i","a","n","a">>
     [] w = "in" -> <<"i","n">>
     [] w = "california" -> <<"c","a","l","i","f","o","r","n","i","a">>
     [] w = "ca" -> <<"c","a">>
     [] w = "fl" -> <<"f","l">>
     [] w = "florida" -> <<"f","l","o","r","i","d","a">>
     [] w = "fla" -> <<"f","l","a">>
     [] w = "nebraska" -> <<"n","e","b","r","a","s","k","a">>
     [] w = "ne" -> <<"n","e">>
     [] w = "state" -> <<"s","t","a","t","e">>
     [] w = "federal" -> <<"f","e","d","e","r","a","l">>
     [] w = "court" -> <<"c","o","u","r","t">>
     [] w = "courts" -> <<"c","o","u","r","t","s">>
     [] w = "of" -> <<"o","f">>
     [] w = "the" -> <<"t","h","e">>
     [] w = "fifth" -> <<"f","i","f","t","h">>
     [] w = "circuit" -> <<"c","i","r","c","u","i","t">>
     [] w = "supreme" -> <<"s","u","p","r","e","m","e">>
     [] w = "scotus" -> <<"s","c","o","t","u","s">>
     [] w = "ind" -> <<"i","n","d">>
     [] w = "tex" -> <<"t","e","x">>
     [] w = "neb" -> <<"n","e","b">>
     [] w = "ca5" -> <<"c","a","5">>
     [] w = "zzz" -> <<"z","z","z">>
     [] w = "district" -> <<"d","i","s","t","r","i","c","t">>
     [] w = "new" -> <<"n","e","w">>
     [] w = "york" -> <<"y","o","r","k">>]

upperOf == [c \in LowerCase |-> CHOOSE u \in UpperCase : lowerOf[u] = c]
\* str.upper()
Upper(s) == [i \in 1..Len(s) |-> IF s[i] \in LowerCase THEN upperOf[s[i]] ELSE s[i]]

\* the phrases: up to MaxWords words of the vocabulary, the keys of the
\* registry, and three longer phrases
RECURSIVE WordSeqs(_)
WordSeqs(n) ==
   IF n = 0 THEN {<<>>}
   ELSE WordSeqs(n - 1) \cup {Append(p, w) : p \in WordSeqs(n - 1), w \in Vocabulary}
\* the keys that name a state, and the ways of asking for the courts of one
StateKeys == {k \in MappingKeys : k \o <<"state">> \in MappingKeys}
StatePhrases(X) == {
   <<"state", "of">> \o X, <<"the", "state", "of">> \o X,
   <<"federal", "courts", "in">> \o X, <<"federal", "court", "in">> \o X,
   X \o <<"federal", "courts">>, X \o <<"federal", "court">>,
   <<"the">> \o X, X \o <<"courts">>, <<"courts", "of">> \o X, <<"courts", "in">> \o X,
   X \o <<"state", "courts">>, <<"the">> \o X \o <<"federal">>}
Phrases ==
   (WordSeqs(MaxWords) \ {<<>>}) \cup MappingKeys
      \cup UNION {StatePhrases(X) : X \in StateKeys}

\* the text of a phrase, its words separated by sep
PhraseText(p, sep) == Join([i \in 1..Len(p) |-> Spelling[p[i]]], sep)

\* str.capitalize() of a lowercase text
Capitalized(t) == IF t = <<>> THEN t ELSE Upper(<<t[1]>>) \o Tail(t)

\* a text in lower case, in upper case, and capitalized with whitespace around it
Forms(t) == {t, Upper(t), <<" ">> \o Capitalized(t) \o <<" ", " ">>}

\* the texts given to the function: the forms of every phrase, its words one
\* or two spaces apart
JurisdictionInputs ==
   {<<>>} \cup
   UNION {Forms(t) : t \in {PhraseText(p, sep) : p \in Phrases, sep \in {<<" ">>, <<" ", " ">>}}}

ResolveInit ==
   /\ arguments \in JurisdictionInputs
   /\ Idle
   /\ client = "absent"
   /\ Blank

ResolveJurisdiction ==
   /\ pc = "call"
   /\ outcome' = map_jurisdiction_to_codes(arguments)
   /\ pc' = "done"
   /\ UNCHANGED <<session, chat, arguments, client, exc, search_type, query, keyword_query, court,
                  filed_after, filed_before, metadata, future, finished, calls, reranker,
                  keyword_results, semantic_results, all_cases,
                  keyword_top_5, semantic_top_5, final_results, tag>>

ResolveSpec == ResolveInit /\ [][ResolveJurisdiction]_vars

(***************************************************************************)
(* parse_date_input on its own: `arguments` holds the text and the day     *)
(* datetime.now() reads, a day number counted from 01/01/0001; `outcome`   *)
(* is the returned dict, and `exc` the exception when the function raises. *)
(***************************************************************************)
MaxSpaces == 2

NumberTexts == {<<"0">>, <<"2">>, <<"1","0">>, <<"2","0","2","6">>, <<"3","0","0","0">>, <<"3","0","0","0","0","0","0">>}
YearTexts == {<<"2","0","1","9">>, <<"2","0","2","3">>, <<"3","0","0","0">>}
\* 'last N years' and its variants, found anywhere in the text
LastYearsPhrases ==
   UNION {{<<<<"l","a","s","t">>, n, <<"y","e","a","r","s">>>>,
           <<<<"p","a","s","t">>, n, <<"y","e","a","r","s">>>>,
           <<<<"l","a","s","t">>, n, <<"y","e","a","r">>>>,
           <<n, <<"l","a","s","t">>, <<"y","e","a","r","s">>>>,
           <<n, <<"p","a","s","t">>, <<"y","e","a","r","s">>>>,
           <<<<"t","h","e">>, <<"l","a","s","t">>, n, <<"y","e","a","r","s">>, <<"o","r">>, <<"s","o">>>>,
           <<<<"l","a","s","t">>, n, <<"y","e","a","r","s","x">>>>} : n \in NumberTexts}
RangePhrases ==
   UNION {{<<a, <<"t","o">>, b>>,
           <<a, <<"-">>, b>>,
           <<<<"f","r","o","m">>, a, <<"t","o">>, b>>,
           <<a \o <<"-">> \o b>>} : a \in YearTexts, b \in YearTexts}
YearPhrases ==
   UNION {{<<<<"s","i","n","c","e">>, y>>,
           <<<<"a","f","t","e","r">>, y>>,
           <<<<"f","r","o","m">>, y>>,
           <<<<"b","e","f","o","r","e">>, y>>,
           <<<<"u","n","t","i","l">>, y>>,
           <<y>>} : y \in YearTexts}
DayPhrases ==
   {<<<<"0","3","/","1","5","/","2","0","2","0">>>>, <<<<"2","0","2","0","-","0","3","-","1","5">>>>, <<<<"1","3","/","4","5","/","2","0","2","0">>>>}
\* phrases that none of the patterns of lines 843-913 matches
UnrecognizedPhrases ==
   {<<<<"3","/","1","5","/","2","0","2","0">>>>,
    <<<<"l","a","s","t">>, <<"t","w","o">>, <<"y","e","a","r","s">>>>,
    <<<<"2">>, <<"y","e","a","r","s">>>>,
    <<<<"l","a","s","t">>, <<"y","e","a","r">>>>,
    <<<<"s","o","o","n">>>>,
    <<<<"2","0","2","0","1">>>>,
    <<<<"r","e","c","e","n","t">>, <<"c","a","s","e","s">>>>}
   \cup UNION {{<<<<"u","n","t","i","l">>, y, <<"m","a","y","b","e">>>>, <<<<"i","n">>, y>>} : y \in YearTexts}
   \cup {<<<<"l","a","s","t">>, <<"-">>, n, <<"y","e","a","r","s">>>> : n \in NumberTexts}
DatePhrases ==
   LastYearsPhrases \cup RangePhrases \cup YearPhrases \cup DayPhrases \cup UnrecognizedPhrases

\* n spaces
RECURSIVE Spaces(_)
Spaces(n) == IF n = 0 THEN <<>> ELSE <<" ">> \o Spaces(n - 1)

\* the texts of a set of phrases: every form, the words 1..MaxSpaces spaces apart
DateTexts(phrases) == UNION {Forms(Join(p, Spaces(k))) : p \in phrases, k \in 1..MaxSpaces}
DateInputs == {<<>>, None, <<" ">>} \cup DateTexts(DatePhrases)

ParseInit ==
   /\ arguments \in [date_input : DateInputs, today : Clock]
   /\ Idle
   /\ client = "absent"
   /\ Blank

ParseDate ==
   /\ pc = "call"
   /\ IF ParseDateError(arguments.date_input, arguments.today) # NoExc
      THEN /\ pc' = "raised"
           /\ exc' = ParseDateError(arguments.date_input, arguments.today)
           /\ outcome' = outcome
      ELSE /\ pc' = "done"
           /\ exc' = exc
           /\ outcome' = parse_date_input(arguments.date_input)
   /\ UNCHANGED <<session, chat, arguments, client, search_type, query, keyword_query, court,
                  filed_after, filed_before, metadata, future, finished, calls, reranker,
                  keyword_results, semantic_results, all_cases,
                  keyword_top_5, semantic_top_5, final_results, tag>>

ParseSpec == ParseInit /\ [][ParseDate]_vars

(***************************************************************************)
(* The query transformation on its own: `arguments` is the query text,     *)
(* `outcome` holds what the two detections say and what                    *)
(* convert_boolean_to_natural_language returns, applied once and twice.    *)
(***************************************************************************)
\* the tokens the queries of the model are made of
QueryTokens == {
   <<"s","l","i","p">>, <<"f","a","l","l">>,
   <<"A","N","D">>, <<"a","n","d">>, <<"O","R">>, <<"N","O","T">>, <<"n","o","t">>,
   <<"&">>, <<"%">>, <<"(">>, <<")">>}

\* the sequences of up to n tokens of T
RECURSIVE TokenSeqs(_, _)
TokenSeqs(T, n) ==
   IF n = 0 THEN {<<>>}
   ELSE TokenSeqs(T, n - 1) \cup {Append(p, t) : p \in TokenSeqs(T, n - 1), t \in T}

\* queries with glued operators, operators inside words, repeated operators,
\* nested groups and loose whitespace
ExtraQueries == {
   <<"s","l","i","p","&","f","a","l","l">>,
   <<"s","l","i","p","%","f","a","l","l">>,
   <<"(","s","l","i","p",")","A","N","D","(","f","a","l","l",")">>,
   <<"b","r","a","n","d">>,
   <<"N","O","T","E"," ","O","R","E">>,
   <<"s","l","i","p"," ","o","r"," ","f","a","l","l">>,
   <<"s","l","i","p"," ","O","r"," ","f","a","l","l">>,
   <<" "," ","s","l","i","p"," "," ","A","N","D"," "," ","f","a","l","l"," ">>,
   <<"s","l","i","p"," ","A","N","D"," ","A","N","D"," ","f","a","l","l">>,
   <<"s","l","i","p"," ","A","N","D"," ","(","N","O","T"," ","f","a","l","l",")">>,
   <<"s","l","i","p"," "," ","f","a","l","l">>}

\* the query texts: up to MaxTokens tokens one space apart, and the extra ones
QueryTexts == {Join(p, <<" ">>) : p \in TokenSeqs(QueryTokens, MaxTokens)} \cup ExtraQueries

TransformInit ==
   /\ arguments \in QueryTexts
   /\ Idle
   /\ client = "absent"
   /\ Blank

\* lines 1159 and 1105, and convert_boolean_to_natural_language(query)
Convert ==
   /\ pc = "call"
   /\ outcome' = [has_boolean_operators |-> has_boolean_operators(arguments),
                  has_boolean |-> has_boolean(arguments),
                  once |-> convert_boolean_to_natural_language(arguments),
                  twice |-> None]
   /\ pc' = "done"
   /\ UNCHANGED <<session, chat, arguments, client, exc, search_type, query, keyword_query, court,
                  filed_after, filed_before, metadata, future, finished, calls, reranker,
                  keyword_results, semantic_results, all_cases,
                  keyword_top_5, semantic_top_5, final_results, tag>>

\* convert_boolean_to_natural_language applied to what it returned
ConvertAgain ==
   /\ pc = "done"
   /\ outcome' = [outcome EXCEPT !.twice = convert_boolean_to_natural_language(outcome.once)]
   /\ pc' = "again"
   /\ UNCHANGED <<session, chat, arguments, client, exc, search_type, query, keyword_query, court,
                  filed_after, filed_before, metadata, future, finished, calls, reranker,
                  keyword_results, semantic_results, all_cases,
                  keyword_top_5, semantic_top_5, final_results, tag>>

TransformNext == Convert \/ ConvertAgain

TransformSpec == TransformInit /\ [][TransformNext]_vars

(***************************************************************************)
(* execute_search_case_law up to its search calls, on requests that vary   *)
(* the query, the lexical query and the court filter                       *)
(***************************************************************************)
\* the tokens of the queries of these requests
DispatchTokens == {
   <<"s","l","i","p">>, <<"w","i","t","h">>, <<"o","f">>,
   <<"A","N","D">>, <<"N","O","T">>, <<"&">>, <<"(">>, <<")">>}

Word4(c) == <<c, c, c, c>>
\* a query of eight words that qualify as key terms
EightTerms ==
   Join(<<Word4("a"), Word4("b"), Word4("c"), Word4("d"),
          Word4("e"), Word4("f"), Word4("g"), Word4("h")>>, <<" ">>)

DispatchExtraQueries == {
   QNatural, QBoolean,
   <<"b","r","e","a","c","h"," ","o","f"," ","c","o","n","t","r","a","c","t">>,
   <<"S","l","i","p"," ","a","n","d"," ","F","A","L","L">>,
   <<"S","l","i","p"," ","i","n"," ","F","A","L","L">>,
   <<"s","l","i","p"," ","O","R"," ","f","a","l","l">>,
   <<"s","l","i","p"," ","%"," ","f","a","l","l">>,
   <<"%">>,
   <<"s","l","i","p","&","f","a","l","l">>,
   <<"(","s","l","i","p",")","A","N","D","(","f","a","l","l",")">>,
   <<"s","l","i","p"," ","A","N","D"," ","(","N","O","T"," ","f","a","l","l",")">>,
   <<"s","l","i","p"," "," ","A","N","D"," "," ","f","a","l","l">>,
   EightTerms}

DispatchQueries ==
   {Join(p, <<" ">>) : p \in TokenSeqs(DispatchTokens, MaxDispatchTokens)} \cup DispatchExtraQueries

\* a court code, a registry key and a phrase that nothing resolves
CourtTex == <<"t","e","x">>
CourtTexasFederal == <<"T","e","x","a","s"," ","f","e","d","e","r","a","l">>
CourtUnknown == <<"z","z","z">>

\* the legacy date ranges of the requests: none, not recognized, a year, a
\* number of years back, and a number of years no date reaches
DateRanges ==
   {<<>>, <<" ">>}
   \cup UNION {Forms(Join(p, <<" ">>)) : p \in UnrecognizedPhrases}
   \cup {<<"2","0","1","9">>, <<"l","a","s","t"," ","2"," ","y","e","a","r","s">>,
         <<"l","a","s","t"," ","3","0","0","0"," ","y","e","a","r","s">>}
AllDispatchRequests ==
   [query : DispatchQueries,
    extracted_query : {Missing},
    keyword_query : {Missing, QKeyword},
    search_type : {"keyword", "semantic", "both"},
    reasoning : {Missing, ROnly},
    court : {Missing, <<>>, CourtTex, CourtTexasFederal, CourtUnknown},
    jurisdiction : {Missing, <<>>, CourtTexasFederal, CourtUnknown},
    filed_after : {NoDate},
    filed_before : {NoDate},
    date_range : {Missing} \cup DateRanges,
    status : {MissingStr},
    order_by : {MissingStr},
    cited_gt : {NoneStr},
    cursor : {NoneStr},
    page_size : {3}]
\* the court filter varies on two queries, the legacy date range on one, the
\* query on requests without a filter
DispatchRequests ==
   {r \in AllDispatchRequests :
      /\ r.search_type = "both" => r.reasoning = Missing
      /\ \/ r.court = Missing /\ r.jurisdiction = Missing
         \/ r.query \in {QNatural, QBoolean} /\ r.keyword_query = Missing
                /\ r.date_range = Missing
      /\ \/ r.date_range = Missing
         \/ r.query = QNatural /\ r.keyword_query = Missing}

DispatchInit ==
   /\ arguments \in DispatchRequests
   /\ Idle
   /\ client = "present"
   /\ Blank

DispatchNext ==
   \/ Prepare
   \/ SubmitKeyword
   \/ SubmitSemantic
   \/ \E b \in Branches : WorkerStart(b)
   \/ SingleCall

DispatchSpec == DispatchInit /\ [][DispatchNext]_vars

(***************************************************************************)
(* main(), src/main.py lines 456-621: the conversation loop.  `session`    *)
(* holds the locals last_results and last_query, the number of turns and   *)
(* of searches made, what the last turn did, and `recent`, the list that   *)
(* the most recent search displayed (empty when it displayed none).  A     *)
(* case is named by the search that returned it and its place in the list. *)
(* LLMClient.chat is taken by what it returns.                             *)
(***************************************************************************)
MaxTurns == 4
MaxShown == 2
MAX_RESULTS == 10

NoCase == [search |-> 0, index |-> 0]
\* the n formatted results of search s
Cases(s, n) == [i \in 1..n |-> [search |-> s, index |-> i]]

\* what llm_client.chat returns for the message that leads to search s: no
\* tool call, a tool call without a search, a search that failed, a search
\* that returned n results
ChatReturns(s) ==
   {[tool_called |-> FALSE, search_results |-> "none", formatted_results |-> <<>>],
    [tool_called |-> TRUE, search_results |-> "none", formatted_results |-> <<>>],
    [tool_called |-> TRUE, search_results |-> "failure", formatted_results |-> <<>>]}
   \cup {[tool_called |-> TRUE, search_results |-> "success", formatted_results |-> Cases(s, n)] :
            n \in 0..MaxShown}

\* lines 484-485
MainInit ==
   /\ session = [running |-> TRUE, last_results |-> <<>>, last_query |-> 0,
                 turns |-> 0, searches |-> 0, recent |-> <<>>,
                 event |-> "welcome", number |-> 0, selected |-> NoCase, offered |-> 0]
   /\ chat = NoChat
   /\ arguments = Missing
   /\ client = "present"
   /\ Blank

\* one more turn of the loop, with what it did
Turn(event) == [session EXCEPT !.turns = @ + 1, !.event = event, !.number = 0,
                               !.selected = NoCase, !.offered = 0]
Awaiting == session.running /\ session.turns < MaxTurns

\* lines 495-497: exit, quit, q
Quit ==
   /\ Awaiting
   /\ session' = [Turn("goodbye") EXCEPT !.running = FALSE]
   /\ UNCHANGED <<chat, searchVars>>

\* lines 499-506: new, reset
NewConversation ==
   /\ Awaiting
   /\ session' = [Turn("new") EXCEPT !.last_results = <<>>, !.last_query = 0, !.recent = <<>>]
   /\ UNCHANGED <<chat, searchVars>>

\* lines 508-517: help, jurisdictions, courts, an empty line
Help ==
   /\ Awaiting
   /\ session' = Turn("help")
   /\ UNCHANGED <<chat, searchVars>>

\* lines 520-580: a number while last_results is not empty
SelectCase ==
   /\ Awaiting
   /\ session.last_results # <<>>
   /\ \E user_input \in 0..(MaxShown + 1) :
         LET idx == user_input - 1
         IN  IF 0 <= idx /\ idx < Len(session.last_results)
             THEN \E done \in {"analyzed", "fetch_failed", "no_cluster_id"} :
                     session' = [Turn(done) EXCEPT !.number = user_input,
                                                   !.selected = session.last_results[idx + 1]]
             ELSE session' = [Turn("out_of_range") EXCEPT !.number = user_input]
   /\ UNCHANGED <<chat, searchVars>>

\* lines 585-621: any other input goes to llm_client.chat
ChatTurn ==
   /\ Awaiting
   /\ \E result \in ChatReturns(session.searches + 1) :
         LET performed == result.search_results # "none"
             shows == result.tool_called /\ performed /\ result.formatted_results # <<>>
             formatted_results == Take(result.formatted_results, MAX_RESULTS)
             last_results == IF shows THEN formatted_results ELSE session.last_results
         IN  session' = [Turn(IF shows THEN "results"
                              ELSE IF result.search_results = "failure" THEN "search_error"
                              ELSE "response") EXCEPT
                !.last_results = last_results,
                !.last_query = IF shows THEN session.searches + 1 ELSE @,
                !.searches = IF performed THEN @ + 1 ELSE @,
                !.recent = IF performed THEN (IF shows THEN formatted_results ELSE <<>>) ELSE @,
                !.offered = IF last_results # <<>> /\ result.tool_called
                            THEN Len(last_results) ELSE 0]
   /\ UNCHANGED <<chat, searchVars>>

MainNext == Quit \/ NewConversation \/ Help \/ SelectCase \/ ChatTurn

MainSpec == MainInit /\ [][MainNext]_vars

(***************************************************************************)
(* LLMClient.chat, src/llm_client.py lines 702-897, and _chat_compound,    *)
(* lines 969-1063.  `chat` holds the locals of one call: where it is, the  *)
(* kind of model, the iteration, the completion calls made, the fields of  *)
(* `result`, the tool calls of the last reply and the length of           *)
(* self.chat_history; `client` is the courtlistener client.  A response is *)
(* kept as the message it is, "" being the empty text.                     *)
(***************************************************************************)
MaxToolCalls == 2
max_iterations == 3

\* the model of the client: none (self.client is None), one that calls
\* tools, groq/compound
ModelKinds == {"none", "tools", "compound"}
ToolNames == {"search_case_law", "build_search_query", "keyword_search", "unknown_tool"}
\* the tool calls of one assistant message
ToolCallLists == UNION {[1..n -> ToolNames] : n \in 1..MaxToolCalls}
\* message.content of a reply: None, the empty text, a text, and for
\* groq/compound a text with a [SEARCH: ...] request
Contents == {"<None>", "", "text", "search_request"}

ChatInit ==
   /\ chat \in [at : {"entry"}, model : ModelKinds, iteration : {0}, completions : {0},
                tool_called : {FALSE}, search_results : {"none"}, searches : {0},
                searched_in : {0}, response : {""}, raised : {FALSE},
                tool_calls : {<<>>}, chat_history : {1}]
   /\ client \in {"present", "absent"}
   /\ session = NoSession
   /\ arguments = Missing
   /\ Blank

\* lines 895-897: the except block
ErrorResponse == "I encountered an error"
\* lines 890-891: the response after the loop
StillProcessing(response) ==
   IF response \in {"", "<None>"} THEN "I'm still processing your request" ELSE response

\* lines 729-752: no client, groq/compound, or the tool calling loop
Enter ==
   /\ chat.at = "entry"
   /\ chat' = CASE chat.model = "none" ->
                     [chat EXCEPT !.at = "returned", !.response = "Please enter your search query"]
                [] chat.model = "compound" -> [chat EXCEPT !.at = "compound", !.chat_history = 2]
                [] chat.model = "tools" -> [chat EXCEPT !.at = "loop", !.chat_history = 2]
   /\ UNCHANGED <<session, searchVars>>

\* does a tool call run a search, lines 803-808 and 846-852
RunsSearch(name) == name \in {"search_case_law", "keyword_search"} /\ client = "present"

\* lines 798-878: the tool calls up to the first one whose search raises
\* (all of them when none raises): the searches that returned
SearchesReturned(tool_calls, raises_at) ==
   Cardinality({i \in 1..Len(tool_calls) :
                   RunsSearch(tool_calls[i]) /\ (raises_at = 0 \/ i < raises_at)})

\* lines 881-887 with the loop going on after a search
BreaksAfterSearchNever(search_results) == FALSE
\* lines 881-887: if result["search_results"]: ... break
BreaksAfterSearch(search_results) == search_results # "none"

\* lines 754-887: one iteration of the loop
Iterate ==
   /\ chat.at = "loop"
   /\ chat.iteration < max_iterations
   /\ LET iteration == chat.iteration + 1
          called == [chat EXCEPT !.iteration = iteration, !.completions = @ + 1]
      IN  \/ \* completions.create raises
             chat' = [called EXCEPT !.at = "returned", !.raised = TRUE, !.response = ErrorResponse]
          \/ \* no tool calls: the content is the response
             \E content \in Contents \ {"search_request"} :
                chat' = [called EXCEPT !.at = "returned", !.response = StillProcessing(content),
                                       !.tool_calls = <<>>, !.chat_history = @ + 1]
          \/ \* tool calls; the search of call raises_at raises (0: none does)
             \E tool_calls \in ToolCallLists :
             \E raises_at \in {0} \cup {i \in 1..Len(tool_calls) : RunsSearch(tool_calls[i])} :
                LET n == SearchesReturned(tool_calls, raises_at)
                    search_results == IF n > 0 THEN "dict" ELSE called.search_results
                    answered == IF raises_at # 0 THEN raises_at - 1 ELSE Len(tool_calls)
                    after == [called EXCEPT !.tool_called = TRUE,
                                            !.tool_calls = tool_calls,
                                            !.chat_history = @ + 1 + answered,
                                            !.search_results = search_results,
                                            !.searches = @ + n,
                                            !.searched_in = IF n > 0 /\ @ = 0 THEN iteration ELSE @]
                IN  IF raises_at # 0
                    THEN chat' = [after EXCEPT !.at = "returned", !.raised = TRUE,
                                               !.response = ErrorResponse]
                    ELSE IF BreaksAfterSearch(search_results)
                    THEN chat' = [after EXCEPT !.at = "returned",
                                               !.response = StillProcessing("Showing results"),
                                               !.chat_history = @ + 1]
                    ELSE chat' = after
   /\ UNCHANGED <<session, searchVars>>

\* lines 754 and 890-893: the loop ends without a break
Exhausted ==
   /\ chat.at = "loop"
   /\ chat.iteration >= max_iterations
   /\ chat' = [chat EXCEPT !.at = "returned", !.response = StillProcessing(chat.response)]
   /\ UNCHANGED <<session, searchVars>>

\* lines 746-747 and 969-1063: _chat_compound
Compound ==
   /\ chat.at = "compound"
   /\ LET called == [chat EXCEPT !.completions = @ + 1, !.at = "returned"]
      IN  \/ \* completions.create raises
             chat' = [called EXCEPT !.raised = TRUE, !.response = ErrorResponse]
          \/ \E content \in Contents :
                IF content = "<None>"
                THEN \* re.search(search_pattern, None) raises TypeError
                     chat' = [called EXCEPT !.raised = TRUE, !.response = ErrorResponse]
                ELSE IF content = "search_request" /\ client = "present"
                THEN \/ chat' = [called EXCEPT !.tool_called = TRUE, !.search_results = "dict",
                                               !.searches = 1, !.searched_in = 1,
                                               !.response = "Showing results",
                                               !.chat_history = @ + 1]
                     \/ chat' = [called EXCEPT !.tool_called = TRUE, !.raised = TRUE,
                                               !.response = "Search error",
                                               !.chat_history = @ + 1]
                ELSE chat' = [called EXCEPT !.response = content, !.chat_history = @ + 1]
   /\ UNCHANGED <<session, searchVars>>

ChatNext == Enter \/ Iterate \/ Exhausted \/ Compound

\* the calling thread runs on until chat returns
ChatSpec == ChatInit /\ [][ChatNext]_vars /\ WF_vars(ChatNext)

(***************************************************************************)
(* Properties                                                              *)
(***************************************************************************)
Returned == pc = "done"
\* the _search_source fields of a result list
TagsOf(results) == [i \in 1..Len(results) |-> tag[results[i]]]
\* the first n elements of a branch response, in the API's order
Upstream(res, n) == [i \in 1..Min(n, Len(res)) |-> res[i]]

\* C1: execute_search_case_law never raises to its caller, and every failure
\* outcome carries success=false, an error message and an error_type.
C1_NeverRaisesTypedFailure ==
   /\ pc # "raised"
   /\ (Returned /\ ~outcome.success) =>
         (outcome.error # Absent /\ outcome.error_type # Absent)

C3_RerankerFallback ==
   reranker \in {"missing", "unavailable", "raises"} =>
      /\ pc \notin {"except", "raised"}
      /\ Returned =>
            /\ outcome.success
            /\ ~metadata.semantic_reranked
            /\ search_type = "both" =>
                  /\ Len(outcome.results) =
                        Len(keyword_top_5) + Min(5, Len(future["semantic"].res))
                  /\ \A j \in 1..Min(5, Len(future["semantic"].res)) :
                        outcome.results[Len(keyword_top_5) + j] = future["semantic"].res[j]
            /\ search_type = "semantic" => outcome.results = Upstream(all_cases, 5)

C3_Witness ==
   /\ Returned /\ search_type = "both"
   /\ reranker = "raises"
   /\ Len(future["semantic"].res) > 5
   /\ Len(outcome.results) = Len(keyword_top_5) + 5

\* C4: in dual mode, when either branch call raises the outcome is a failure
\* with no results and count 0, whatever the other branch returned.
C4_BranchFailureAborts ==
   (Returned /\ search_type = "both" /\ \E b \in Branches : future[b].st = "raised") =>
      /\ ~outcome.success
      /\ outcome.results = <<>>
      /\ outcome.count = 0
      /\ final_results = <<>>

C4_Witness ==
   /\ Returned /\ search_type = "both"
   /\ future["semantic"].st = "raised"
   /\ future["keyword"].st = "returned"
   /\ Len(future["keyword"].res) > 0
   /\ ~outcome.success

\* x lists at most n elements of res, each once
OrderedSubset(x, res, n) ==
   /\ Len(x) <= n
   /\ \A i \in 1..Len(x) : \E k \in 1..Len(res) : x[i] = res[k]
   /\ \A i, j \in 1..Len(x) : x[i] = x[j] => i = j

\* C5: in dual mode the result list and its tags are a function of the two
\* branch responses and of what the reranker gave: they are the same for
\* every order in which the two branch calls start and end.
C5_OrderIndependent ==
   (Returned /\ search_type = "both" /\ client = "present") =>
      IF \E b \in Branches : future[b].st = "raised"
      THEN outcome.results = <<>>
      ELSE /\ outcome.results = Upstream(future["keyword"].res, 5) \o semantic_top_5
           /\ TagsOf(outcome.results) =
                 [i \in 1..Len(outcome.results) |->
                    IF outcome.results[i].br = "keyword" THEN "keyword" ELSE "semantic"]
           /\ IF reranker = "ok" /\ future["semantic"].res # <<>>
              THEN OrderedSubset(semantic_top_5, future["semantic"].res, 5)
              ELSE semantic_top_5 = Upstream(future["semantic"].res, 5)

C5_Witness ==
   /\ Returned /\ search_type = "both" /\ outcome.success
   /\ finished = <<"semantic", "keyword">>
   /\ Len(outcome.results) > Len(keyword_top_5)
   /\ keyword_top_5 # <<>>
   /\ outcome.results[1].br = "keyword"

\* the filters of a search call
FiltersOf(c) ==
   [court |-> c.court, filed_after |-> c.filed_after, filed_before |-> c.filed_before,
    status |-> c.status, order_by |-> c.order_by, cited_gt |-> c.cited_gt,
    cursor |-> c.cursor]
CallsOfType(t) == {c \in BagToSet(calls) : c.search_type = t}

AsksForOnly ==
   /\ arguments.search_type \in {"keyword", "semantic"}
   /\ arguments.reasoning \notin {None, Missing}
   /\ \E i \in 1..Len(arguments.reasoning) :
         /\ i + 3 <= Len(arguments.reasoning)
         /\ arguments.reasoning[i] \in {"o", "O"}
         /\ arguments.reasoning[i + 1] \in {"n", "N"}
         /\ arguments.reasoning[i + 2] \in {"l", "L"}
         /\ arguments.reasoning[i + 3] \in {"y", "Y"}

IsDualSemanticBlock(r, cases, block, reranked) ==
   IF DualCallsReranker(r, cases) /\ r = "ok"
   THEN reranked /\ OrderedSubset(block, cases, semantic_top_n)
   ELSE ~reranked /\ block = FallbackTop(cases)

\* C8: the result list and the semantic_reranked flag of a single semantic
\* request are those of the semantic block of a dual request on the same
\* candidates, for every state of the reranker.
C8_SingleSemanticAsDual ==
   (Returned /\ search_type = "semantic" /\ outcome.success) =>
      \A r \in RerankerStates :
         reranker \in {"unknown", r} =>
            IsDualSemanticBlock(r, all_cases, outcome.results, metadata.semantic_reranked)

InFlight == BagCardinality(calls) - Len(finished)

\* C10: a rerank call is in progress only after the semantic branch call
\* has returned and while no search call is running; at most two search
\* calls are in flight at any time.
C10_RerankAfterFetch ==
   /\ InFlight <= 2
   /\ pc = "reranking" => (future["semantic"].st = "returned" /\ InFlight = 0)
   /\ pc = "single_reranking" => (all_cases # <<>> /\ InFlight = 0)

C10_Witness ==
   /\ pc = "reranking"
   /\ finished = <<"keyword", "semantic">>
   /\ BagCardinality(calls) = 2

(***************************************************************************)
(* Properties of map_jurisdiction_to_codes (specification ResolveSpec)     *)
(***************************************************************************)
\* the phrase given: its words, and whether it is written with single spaces
GivenPhrase == PhraseWords(Strip(Lower(arguments)))
GivenSingleSpaced == SingleSpaced(Strip(Lower(arguments)))
IsKey(w) == w \in DOMAIN STATE_COURT_MAPPING
CodeSet(k) == Range(STATE_COURT_MAPPING[k])

StatesWithVariants ==
   {k \in MappingKeys : Len(k) = 1 /\ IsKey(k \o <<"state">>) /\ IsKey(k \o <<"federal">>)}

\* C12: for every state with a '<state> state' and a '<state> federal' entry
\* the codes of '<state>' include those of both, and the two entries share no
\* code; 'texas federal' yields ca5 and the Texas district and bankruptcy
\* codes and none of tex, texcrimapp, texapp.
C12_StateFederalDisjoint ==
   pc = "done" =>
      /\ \A st \in StatesWithVariants :
            /\ (GivenSingleSpaced /\ GivenPhrase = st \o <<"state">>) =>
                  /\ Range(outcome.court_codes) \subseteq CodeSet(st)
                  /\ Range(outcome.court_codes) \cap CodeSet(st \o <<"federal">>) = {}
            /\ (GivenSingleSpaced /\ GivenPhrase = st \o <<"federal">>) =>
                  /\ Range(outcome.court_codes) \subseteq CodeSet(st)
                  /\ Range(outcome.court_codes) \cap CodeSet(st \o <<"state">>) = {}
      /\ GivenPhrase = <<"texas", "federal">> =>
            /\ outcome.court_codes =
                  <<"ca5", "txed", "txnd", "txsd", "txwd", "txeb", "txnb", "txsb", "txwb">>
            /\ Range(outcome.court_codes) \cap {"tex", "texcrimapp", "texapp"} = {}

AttorneyGeneralCodes == {"calag", "flaag"}

KeyTexts(k) == Forms(PhraseText(k, <<" ">>))

\* C20: for every key of the registry, written in any letter case and with
\* whitespace around it, the function returns valid=true and the key's
\* registry entry, which is not empty.
C20_RegistryKeysResolve ==
   pc = "done" =>
      \A k \in MappingKeys :
         arguments \in KeyTexts(k) =>
            /\ outcome.valid
            /\ outcome.court_codes = STATE_COURT_MAPPING[k]
            /\ outcome.court_codes # <<>>

C20_Witness ==
   /\ pc = "done"
   /\ arguments = <<" ">> \o <<"T","e","x","a","s"," ","f","e","d","e","r","a","l">> \o <<" ", " ">>
   /\ arguments \in KeyTexts(<<"texas", "federal">>)
   /\ outcome.court_codes = TexasFederal

(***************************************************************************)
(* Properties of the query transformation (specification TransformSpec)    *)
(***************************************************************************)
\* the operator words as the spec writes them
OperatorWords == {<<"A","N","D">>, <<"O","R">>, <<"N","O","T">>}
\* q[i..j] is a whole word of q
IsWholeWord(q, i, j) ==
   /\ i = 1 \/ ~IsWordChar(q[i - 1])
   /\ j = Len(q) \/ ~IsWordChar(q[j + 1])
HasOperatorChar(q) == \E i \in 1..Len(q) : q[i] \in {"&", "%"}
HasOperatorAsWritten(q) ==
   \/ HasOperatorChar(q)
   \/ \E i \in 1..Len(q) : \E j \in i..Len(q) :
         SubSeq(q, i, j) \in OperatorWords /\ IsWholeWord(q, i, j)
HasOperatorAnyCase(q) ==
   \/ HasOperatorChar(q)
   \/ \E i \in 1..Len(q) : \E j \in i..Len(q) :
         Upper(SubSeq(q, i, j)) \in OperatorWords /\ IsWholeWord(q, i, j)
SlipAndFall == <<"s","l","i","p"," ","A","N","D"," ","f","a","l","l">>
SlipFall == <<"s","l","i","p"," ","f","a","l","l">>

C16_IdempotentNoOp ==
   /\ (pc \in {"done", "again"} /\ ~HasOperatorAsWritten(arguments)) => outcome.once = arguments
   /\ pc = "again" => outcome.twice = outcome.once

(***************************************************************************)
(* Properties of the search calls (specification DispatchSpec)             *)
(***************************************************************************)
\* the search calls issued so far
IssuedCalls == BagToSet(calls)
\* a court filter made only of codes of the court registry
IsRegistryCodes(c) == \A k \in 1..Len(c) : c[k] \in ALL_COURTS

\* C14: the court filter of every search call is empty or made only of codes
\* of the court registry; a court or jurisdiction phrase that cannot be
\* resolved is never sent, the call then has no court filter
C14_CourtFilterResolved ==
   \A c \in IssuedCalls : c.court = <<>> \/ IsRegistryCodes(c.court)

\* C15: for every non-empty query, operators and parentheses alone included,
\* the semantic query and the lexical query of the search calls are non-empty
C15_QueriesNonEmpty ==
   arguments.query # <<>> => \A c \in IssuedCalls : c.query # <<>>

\* the tokens of a query: its words, and every other character that is not
\* whitespace
RECURSIVE TokensOf(_, _)
TokensOf(q, i) ==
   IF i > Len(q) THEN <<>>
   ELSE IF IsSpace(q[i]) THEN TokensOf(q, i + 1)
   ELSE IF IsWordChar(q[i])
   THEN <<Slice(q, i, SkipWord(q, i) - 1)>> \o TokensOf(q, SkipWord(q, i))
   ELSE <<<<q[i]>>>> \o TokensOf(q, i + 1)

\* the substitution table of the spec, token by token: AND and & are dropped,
\* OR becomes or, NOT and % become but not, parentheses are removed
RECURSIVE Substituted(_)
Substituted(ts) ==
   IF ts = <<>> THEN <<>>
   ELSE LET t == Head(ts)
        IN  IF Upper(t) = <<"A","N","D">> \/ t \in {<<"&">>, <<"(">>, <<")">>}
            THEN Substituted(Tail(ts))
            ELSE IF Upper(t) = <<"O","R">> THEN <<<<"o","r">>>> \o Substituted(Tail(ts))
            ELSE IF Upper(t) = <<"N","O","T">> \/ t = <<"%">>
            THEN <<<<"b","u","t"," ","n","o","t">>>> \o Substituted(Tail(ts))
            ELSE <<t>> \o Substituted(Tail(ts))
\* the paraphrase the spec describes, its tokens one space apart
Paraphrase(q) == Join(Substituted(TokensOf(q, 1)), <<" ">>)

\* C17: when the main query holds boolean operators, the lexical call gets
\* the original query verbatim (no lexical query being supplied) and the
\* semantic call gets the paraphrase: every AND and & dropped, every OR
\* turned into or, every NOT and % into but not, parentheses removed,
\* whitespace collapsed
C17_VerbatimAndParaphrase ==
   HasOperatorAnyCase(arguments.query) =>
      \A c \in IssuedCalls :
         /\ (c.search_type = "keyword" /\ ~Truthy(arguments.keyword_query))
               => c.query = arguments.query
         /\ c.search_type = "semantic" => c.query = Paraphrase(arguments.query)

\* the positions where a word of q starts, and the word that starts there
WordStarts(q) == {i \in 1..Len(q) : IsWordChar(q[i]) /\ (i = 1 \/ ~IsWordChar(q[i - 1]))}
WordFrom(q, i) ==
   LET j == CHOOSE j \in i..Len(q) :
               /\ \A k \in i..j : IsWordChar(q[k])
               /\ j = Len(q) \/ ~IsWordChar(q[j + 1])
   IN  SubSeq(q, i, j)
\* a word of 4 or more letters that is not a stopword
Qualifies(w) ==
   /\ Len(w) >= 4
   /\ \A k \in 1..Len(w) : w[k] \in LowerCase \cup UpperCase
   /\ Lower(w) \notin common_words
\* the first 7 qualifying words of q, in their order, in lower case
KeyTerms(q) ==
   LET S == {i \in WordStarts(q) : Qualifies(WordFrom(q, i))}
       Rank(i) == Cardinality({j \in S : j <= i})
       First7 == {i \in S : Rank(i) <= 7}
   IN  [n \in 1..Cardinality(First7) |->
          Lower(WordFrom(q, CHOOSE i \in First7 : Rank(i) = n))]
BreachOfContract == <<"b","r","e","a","c","h"," ","o","f"," ","c","o","n","t","r","a","c","t">>
BreachAndContract == <<"b","r","e","a","c","h"," ","A","N","D"," ","c","o","n","t","r","a","c","t">>

ResolvesAs(k) == outcome.valid /\ Range(outcome.court_codes) = CodeSet(k)
\* what the phrases about state X must resolve to
SameAsKey(X) ==
   /\ GivenPhrase \in {<<"state", "of">> \o X, <<"the", "state", "of">> \o X,
                       <<"the">> \o X, X \o <<"courts">>,
                       <<"courts", "of">> \o X, <<"courts", "in">> \o X} => ResolvesAs(X)
   /\ GivenPhrase \in {<<"federal", "courts", "in">> \o X, <<"federal", "court", "in">> \o X,
                       X \o <<"federal", "courts">>, X \o <<"federal", "court">>,
                       <<"the">> \o X \o <<"federal">>} => ResolvesAs(X \o <<"federal">>)
   /\ GivenPhrase = X \o <<"state", "courts">> => ResolvesAs(X \o <<"state">>)

NoCourtAsked == ~Truthy(arguments.court) /\ ~Truthy(arguments.jurisdiction)

\* C22: the empty jurisdiction phrase resolves to valid true with an empty
\* code string and a description that says all courts are included, and a
\* request with no court and no jurisdiction sends an empty court filter in
\* every search call
C22_EmptyPhraseNoFilter ==
   NoCourtAsked =>
      LET jurisdiction_result == map_jurisdiction_to_codes(Get(arguments.jurisdiction, <<>>))
      IN  /\ jurisdiction_result.valid
          /\ jurisdiction_result.court_codes = <<>>
          /\ jurisdiction_result.description.text = "All courts (no jurisdiction filter)"
          /\ pc # "call" => court = <<>> /\ metadata.court = <<>>
          /\ \A c \in IssuedCalls : c.court = <<>>

\* both calls of a dual search with an empty jurisdiction have been made
C22_Witness ==
   /\ arguments.court = Missing
   /\ arguments.jurisdiction = <<>>
   /\ \E c \in IssuedCalls : c.search_type = "keyword" /\ c.court = <<>>
   /\ \E c \in IssuedCalls : c.search_type = "semantic" /\ c.court = <<>>

(***************************************************************************)
(* Properties of parse_date_input                                          *)
(***************************************************************************)
\* the texts 'last N years', 'past N years' and 'N last years' of a number N
LastYearsTexts(n) ==
   DateTexts({<<<<"l","a","s","t">>, n, <<"y","e","a","r","s">>>>,
              <<<<"p","a","s","t">>, n, <<"y","e","a","r","s">>>>,
              <<n, <<"l","a","s","t">>, <<"y","e","a","r","s">>>>})

\* C23: for every N >= 0 the phrases 'last N years', 'past N years' and
\* 'N last years' parse to valid true, filed_after the day N*365 days before
\* today and filed_before today
C23_LastYears ==
   \A n \in NumberTexts :
      (pc # "call" /\ arguments.date_input \in LastYearsTexts(n)) =>
         /\ pc = "done"
         /\ outcome.valid
         /\ outcome.filed_after = TodayMinus(IntOf(n) * 365)
         /\ outcome.filed_before = Today

\* the day number of a date of the result on the day `today`
DayOf(d, today) ==
   CASE d.kind = "today" -> today
     [] d.kind = "today_minus_days" -> today - d.n
     [] d.kind = "jan1" -> DaysBeforeYear(d.n) + 1
     [] d.kind = "dec31" -> DaysBeforeYear(d.n + 1)

\* C28: when the result is valid and has both bounds, filed_after is not
\* later than filed_before
C28_AfterNotLaterThanBefore ==
   (/\ pc = "done"
    /\ outcome.valid
    /\ outcome.filed_after # NoDate
    /\ outcome.filed_before # NoDate) =>
      DayOf(outcome.filed_after, arguments.today) <= DayOf(outcome.filed_before, arguments.today)
\* the non-empty texts that none of the patterns matches
UnrecognizedTexts == {<<" ">>} \cup DateTexts(UnrecognizedPhrases)

\* C24: a non-empty text that matches no pattern parses to valid false with
\* both bounds empty and the text as given in the description, the empty text
\* to valid true with both bounds empty; a request whose legacy date_range is
\* such a text raises nothing and its search calls carry no date filter
C24_UnparseableDates ==
   LET date_range == Get(arguments.date_range, <<>>)
       date_result == parse_date_input(date_range)
   IN  /\ date_range \in UnrecognizedTexts =>
            /\ ~date_result.valid
            /\ date_result.filed_after = NoDate
            /\ date_result.filed_before = NoDate
            /\ date_result.description = Description("Could not parse date", date_range)
            /\ pc # "raised"
            /\ pc # "call" => filed_after = NoDate /\ filed_before = NoDate
            /\ \A c \in IssuedCalls : c.filed_after = NoDate /\ c.filed_before = NoDate
       /\ ~Truthy(date_range) =>
            /\ date_result.valid
            /\ date_result.filed_after = NoDate
            /\ date_result.filed_before = NoDate

\* both calls of a dual search whose date_range is 'LAST TWO YEARS' have been
\* made, without a date filter
C24_Witness ==
   /\ arguments.date_range = Upper(<<"l","a","s","t"," ","t","w","o"," ","y","e","a","r","s">>)
   /\ \E c \in IssuedCalls : c.search_type = "keyword" /\ c.filed_after = NoDate /\ c.filed_before = NoDate
   /\ \E c \in IssuedCalls : c.search_type = "semantic" /\ c.filed_after = NoDate /\ c.filed_before = NoDate
(***************************************************************************)
(* Properties of the outcome                                               *)
(***************************************************************************)
\* C29: in every outcome count is the length of the result list; a failure
\* outcome has an empty result list and count 0, and a success outcome has
\* no error field
C29_CountIsLength ==
   outcome.returned =>
      /\ outcome.count = Len(outcome.results)
      /\ ~outcome.success => outcome.results = <<>> /\ outcome.count = 0
      /\ outcome.success => outcome.error = Absent /\ outcome.error_type = Absent

\* a failure outcome returned after the keyword call had fetched results
C29_Witness ==
   /\ outcome.returned
   /\ ~outcome.success
   /\ outcome.error_type # Absent
   /\ Len(keyword_results) > 0
   /\ outcome.results = <<>>
\* a branch call that is submitted and has not ended
BranchPending(b) == future[b].st \in {"queued", "running"}

\* C27: no outcome is returned while a branch call is still running; the
\* failure outcome of a keyword call that raised first is returned only after
\* the semantic call has ended
C27_NoReturnWhileRunning ==
   /\ outcome.returned => InFlight = 0 /\ \A b \in Branches : ~BranchPending(b)
   /\ pc \in {"merge", "reranking", "except"} => \A b \in Branches : ~BranchPending(b)

\* the failure outcome of a dual search whose keyword call raised first and
\* whose semantic call returned after it
C27_Witness ==
   /\ outcome.returned
   /\ ~outcome.success
   /\ finished = <<"keyword", "semantic">>
   /\ future["keyword"].st = "raised"
   /\ future["semantic"].st = "returned"
\* the positions the message offers for the results of one search
PositionsOffered(message, source) ==
   UNION {r.first..r.last : r \in {x \in Range(message.ranges) : x.source = source}}

\* C25: in every successful dual outcome keyword_shown + semantic_shown =
\* count = length of the result list, the first keyword_shown positions hold
\* the keyword results and the positions after them the semantic results, and
\* the number ranges of the results message are exactly these positions
C25_CountsDescribeList ==
   (outcome.returned /\ outcome.success /\ metadata.dual_search) =>
      LET k == metadata.keyword_shown
          message == format_search_results_message(outcome.count, metadata)
      IN  /\ k + metadata.semantic_shown = outcome.count
          /\ outcome.count = Len(outcome.results)
          /\ SubSeq(outcome.results, 1, k) = keyword_top_5
          /\ SubSeq(outcome.results, k + 1, outcome.count) = semantic_top_5
          /\ \A i \in 1..k : tag[outcome.results[i]] = "keyword"
          /\ \A i \in (k + 1)..outcome.count : tag[outcome.results[i]] = "semantic"
          /\ message.shown = outcome.count
          /\ PositionsOffered(message, "keyword") = 1..k
          /\ PositionsOffered(message, "semantic") = (k + 1)..outcome.count

\* a successful dual outcome with one keyword result and five semantic results
C25_Witness ==
   /\ outcome.returned
   /\ outcome.success
   /\ metadata.dual_search
   /\ metadata.keyword_shown = 1
   /\ metadata.semantic_shown = 5
   /\ format_search_results_message(outcome.count, metadata).ranges =
         <<NumberRange(1, 1, "keyword"), NumberRange(2, 6, "semantic")>>
(***************************************************************************)
(* Properties of the conversation loop                                     *)
(***************************************************************************)
\* C26: a number N selects the N-th case of the list displayed by the most
\* recent search; after a search that failed or returned nothing, and after
\* 'new', no case of an earlier search is selected
C26_SelectsFromRecentSearch ==
   session.selected # NoCase =>
      /\ session.number \in 1..Len(session.recent)
      /\ session.selected = session.recent[session.number]
(***************************************************************************)
(* Properties of LLMClient.chat                                            *)
(***************************************************************************)
IsEmptyResponse(response) == response \in {"", "<None>"}

\* the tool calling loop: at most max_iterations completion calls, the call
\* is over once a search has returned, in the iteration that made it, and
\* the fallback messages are given
ToolLoopBounded ==
   chat.model = "tools" =>
      /\ chat.completions <= 3
      /\ chat.completions = chat.iteration
      /\ chat.search_results # "none" =>
            chat.at = "returned" /\ chat.iteration = chat.searched_in
      /\ (chat.search_results # "none" /\ ~chat.raised) => chat.response = "Showing results"
      /\ chat.raised => chat.at = "returned" /\ chat.response = ErrorResponse
      /\ (chat.at = "returned" /\ ~chat.raised /\ chat.search_results = "none") =>
            chat.response \in {"text", "I'm still processing your request"}
      /\ (chat.at = "returned" /\ ~chat.raised /\ chat.search_results = "none"
            /\ chat.tool_calls # <<>>) =>
            chat.iteration = 3 /\ chat.response = "I'm still processing your request"

\* C30 as stated: chat always returns a non-empty response, and the tool
\* calling loop is bounded as ToolLoopBounded says
C30_NonEmptyResponse ==
   /\ chat.at = "returned" => ~IsEmptyResponse(chat.response)
   /\ ToolLoopBounded

\* C30: chat always returns; on a tool-calling model and without a model the
\* response is not empty and the tool calling loop is bounded as
\* ToolLoopBounded says; on groq/compound one completion call is made and the
\* response is empty only when the model's reply is the empty text
C30_ChatReturns ==
   /\ [](/\ (chat.at = "returned" /\ chat.model # "compound") => ~IsEmptyResponse(chat.response)
         /\ ToolLoopBounded
         /\ chat.model = "compound" =>
               /\ chat.completions <= 1
               /\ (chat.at = "returned" /\ IsEmptyResponse(chat.response)) =>
                     chat.response = "" /\ ~chat.tool_called /\ ~chat.raised)
   /\ <>(chat.at = "returned")

\* three replies with tool calls and no search: the fallback message after
\* the third completion call
C30_Witness ==
   /\ chat.at = "returned"
   /\ chat.model = "tools"
   /\ chat.completions = 3
   /\ chat.tool_calls # <<>>
   /\ chat.search_results = "none"
   /\ chat.response = "I'm still processing your request"

====
